---- MODULE Spec2Model ----
(***************************************************************************)
(* A model of three subsystems of the homeserver:                          *)
(*   - the user-interactive authentication engine (service/uiaa/mod.rs)    *)
(*     together with the routes that gate an operation behind it           *)
(*     (api/client/account.rs);                                            *)
(*   - the event authorization rules (core/matrix/state_res/event_auth.rs);*)
(*   - the join coordinator (api/client/membership/join.rs) and the        *)
(*     federation send_join handler (api/server/send_join.rs).             *)
(* Each subsystem has its own specification; the variables of the other    *)
(* subsystems stay at their initial value in it.                           *)
(***************************************************************************)
EXTENDS Integers, Sequences, FiniteSets, TLC

VARIABLES
    \* ---- UIA engine ----
    config,                            \* services.config (the fields the flows read)
    first_run,                         \* services.firstrun.is_first_run()
    tokens,                            \* registration token -> remaining uses
    userdevicesessionid_uiaainfo,      \* db map (user, device, session) -> UiaaInfo
    userdevicesessionid_uiaarequest,   \* in-memory map (user, device, session) -> body
    next_session,                      \* the next fresh utils::random_string session
    call,                              \* the requests in flight, one record per task
    executed,                          \* (user, device, session) -> times the gated operation ran
    token_accepts,                     \* token -> submissions whose token stage it satisfied
    succeeded,                         \* (user, device, session) -> the auth that completed it
    \* ---- event authorization ----
    auth_in,                           \* the event and the state it is checked against
    auth_out,                          \* the verdict of the rule: pending, allow, deny, none
    auth_types,                        \* the list auth_types_for_event returned
    \* ---- join coordinator and federation send_join ----
    servers,                           \* the candidate list the join is given
    room,                              \* the room as this server holds it
    state_mutex,                       \* rooms.state.mutex of the room: its holder
    mutex_federation,                  \* rooms.event_handler.mutex_federation: its holder
    join,                              \* the client's join task
    fed,                               \* a peer's send_join request, handled here
    contacted,                         \* the federation requests sent, in order
    \* ---- federation handlers: invite and get_missing_events ----
    invite_call,                       \* an invite request, and what the handler did
    missing_call                       \* a get_missing_events request and its walk

uiaVars == <<config, first_run, tokens, userdevicesessionid_uiaainfo,
             userdevicesessionid_uiaarequest, next_session, call, executed,
             token_accepts, succeeded>>

authVars == <<auth_in, auth_out, auth_types>>

joinVars == <<servers, room, state_mutex, mutex_federation, join, fed, contacted>>

handlerVars == <<invite_call, missing_call>>

vars == <<uiaVars, authVars, joinVars, handlerVars>>

\* no event is being checked
IdleAuthInput == [rule |-> "idle"]

AuthAtRest == auth_in = IdleAuthInput /\ auth_out = "idle" /\ auth_types = <<>>

\* no join is under way
IdleJoin ==
    [pc |-> "idle", idx |-> 1, remote_server |-> "none", response |-> "none",
     result |-> "none", server_in_room |-> FALSE, local_error |-> FALSE,
     stub |-> <<>>, signed |-> <<>>, state_flaw |-> "none", auth_flaw |-> "none",
     state |-> {}]

IdleFed == [pc |-> "idle", shortstatehash |-> 0, result |-> "none", state_before |-> 0]

EmptyRoom == [server_in_room |-> FALSE, membership |-> "leave", timeline |-> <<>>,
              shortstatehash |-> 0, state_source |-> "none",
              outliers |-> {}, state_events |-> {}, saved_states |-> {}]

\* no federation request is being handled
IdleHandler == [pc |-> "idle"]

HandlersAtRest == invite_call = IdleHandler /\ missing_call = IdleHandler

JoinAtRest ==
    /\ servers = <<>>
    /\ room = EmptyRoom
    /\ state_mutex = "free"
    /\ mutex_federation = "free"
    /\ join = IdleJoin
    /\ fed = IdleFed
    /\ contacted = <<>>

(***************************************************************************)
(* Bounds of the model.                                                    *)
(***************************************************************************)
MaxSessions == 1      \* session tokens ever generated
MaxUses == 1          \* uses a registration token is issued with
MaxCompleted == 2     \* length of a stored `completed` list when a call starts
MaxOps == 2           \* executions of a gated operation per session key

(***************************************************************************)
(* Generic helpers.                                                        *)
(***************************************************************************)
Range(s) == {s[i] : i \in 1..Len(s)}

\* Vec::contains
Contains(s, x) == \E i \in 1..Len(s) : s[i] = x

\* BTreeMap / db insert and remove
MapPut(m, k, v) == [x \in (DOMAIN m) \cup {k} |-> IF x = k THEN v ELSE m[x]]
MapDel(m, k) == [x \in (DOMAIN m) \ {k} |-> m[x]]
MapGet(m, k, dflt) == IF k \in DOMAIN m THEN m[k] ELSE dflt
EmptyMap == [x \in {} |-> 0]

(***************************************************************************)
(* UIA: types.                                                             *)
(***************************************************************************)
Password == "m.login.password"
ReCaptcha == "m.login.recaptcha"
RegistrationToken == "m.login.registration_token"
Dummy == "m.login.dummy"

Turnstile == "turnstile"
Recaptcha == "recaptcha"

\* core/config/auth.rs: the order tried when `authenticated_flow` is empty
DEFAULT_AUTH_BACKENDS == <<Recaptcha, Turnstile>>

\* The registration routes authenticate as the empty user on the empty device.
RegUser == <<"", "">>
Alice == <<"@alice", "DEV">>

SessionIds == 1..MaxSessions
NoSession == 0

Key(ud, session) == <<ud[1], ud[2], session>>

EmptyUiaaInfo ==
    [flows |-> <<>>, completed |-> <<>>, params |-> "none",
     session |-> NoSession, auth_error |-> "none"]

NoAuth == [kind |-> "none", session |-> NoSession, token |-> "none", cred |-> "none"]

\* One request: where it stands (pc), the route and the caller, the auth data
\* it carries, its local UiaaInfo, the stages register_route computed from the
\* configuration when the request came in, and what it answered.
IdleCall ==
    [pc |-> "idle", route |-> "none", who |-> "none", ud |-> RegUser, auth |-> NoAuth,
     info |-> EmptyUiaaInfo, required |-> <<>>,
     result |-> "none", resubmit |-> FALSE, verifier |-> "none"]

Procs == {"p1", "p2"}

Booleans == {TRUE, FALSE}

\* Every value services.config can take in the fields the flows read.
AllConfigs ==
    [turnstile_site_key : Booleans, turnstile_secret_key : Booleans,
     recaptcha_site_key : Booleans, recaptcha_private_site_key : Booleans,
     authenticated_flow : {<<>>, <<Turnstile>>, <<Recaptcha>>,
                           <<Turnstile, Recaptcha>>, <<Recaptcha, Turnstile>>},
     open_registration : Booleans]

\* The configurations the running engine is reloaded with: a backend has both
\* of its keys or neither, at most one backend is set up, default order.
UiaConfigs ==
    {c \in AllConfigs :
        /\ c.authenticated_flow = <<>>
        /\ c.turnstile_site_key = c.turnstile_secret_key
        /\ c.recaptcha_site_key = c.recaptcha_private_site_key
        /\ ~(c.turnstile_site_key /\ c.recaptcha_site_key)}

TokenNames == {"t1"}
\* what a client may type into the token field
SubmittedTokens == TokenNames \cup {"bogus"}

\* AuthData as submitted by a client.  `cred` is the verdict the verifier will
\* reach on the submitted secret: "ok", "bad", or "error" (the identifier is
\* not recognised / the verification backend cannot be reached).
AuthInputs(sessions) ==
    {[kind |-> k, session |-> s, token |-> "none", cred |-> c] :
        k \in {"password", "recaptcha"}, s \in sessions, c \in {"ok", "bad", "error"}}
    \cup {[kind |-> "registration_token", session |-> s, token |-> t, cred |-> "ok"] :
        s \in sessions, t \in SubmittedTokens}
    \cup {[kind |-> k, session |-> s, token |-> "none", cred |-> "ok"] :
        k \in {"dummy", "fallback", "other"}, s \in sessions}

\* What the clients of the model send to each route: every stage type of the
\* route's own flows, and a stage type that is in none of them.
RegisterAuthInputs(sessions) ==
    {a \in AuthInputs(sessions) : a.kind # "password"}

PasswordAuthInputs(sessions) ==
    {a \in AuthInputs(sessions) : a.kind \in {"password", "dummy", "fallback"}}

(***************************************************************************)
(* Registration tokens (service/registration_tokens, not part of the       *)
(* sources at hand: a token is a name with a number of remaining uses).    *)
(***************************************************************************)
iterate_tokens(toks) == DOMAIN toks

validate_token(toks, t) == t \in DOMAIN toks /\ toks[t] > 0

mark_token_as_used(toks, t) ==
    IF t \in DOMAIN toks /\ toks[t] > 0 THEN [toks EXCEPT ![t] = @ - 1] ELSE toks

(***************************************************************************)
(* register_route: the flow a registration must pass (account.rs 299-387). *)
(***************************************************************************)
BothKeys(c, backend) ==
    IF backend = Turnstile
    THEN c.turnstile_site_key /\ c.turnstile_secret_key
    ELSE c.recaptcha_site_key /\ c.recaptcha_private_site_key

\* for backend in backends { if both keys are set { push; break } }
RECURSIVE FirstConfiguredBackend(_, _)
FirstConfiguredBackend(c, backends) ==
    IF backends = <<>> THEN "none"
    ELSE IF BothKeys(c, Head(backends)) THEN Head(backends)
    ELSE FirstConfiguredBackend(c, Tail(backends))

CaptchaBackends(c) ==
    IF c.authenticated_flow = <<>> THEN DEFAULT_AUTH_BACKENDS ELSE c.authenticated_flow

TokenStageRequired(frun, toks) == frun \/ iterate_tokens(toks) # {}

RegisterStages(c, frun, toks) ==
    (IF TokenStageRequired(frun, toks) THEN <<RegistrationToken>> ELSE <<>>)
    \o (IF FirstConfiguredBackend(c, CaptchaBackends(c)) # "none" THEN <<ReCaptcha>> ELSE <<>>)

\* a route that gives the dummy flow without looking at the flag
RegisterUiaaInfo_Mutant(c, frun, toks, skip_auth) ==
    LET stages == RegisterStages(c, frun, toks)
        params == FirstConfiguredBackend(c, CaptchaBackends(c))
    IN  IF stages # <<>>
        THEN [refused |-> FALSE,
              info |-> [EmptyUiaaInfo EXCEPT !.flows = <<stages>>, !.params = params]]
        ELSE IF ~skip_auth
        THEN [refused |-> FALSE, info |-> [EmptyUiaaInfo EXCEPT !.flows = <<<<Dummy>>>>]]
        ELSE [refused |-> FALSE, info |-> EmptyUiaaInfo]

\* The UiaaInfo register_route builds, and whether it bails out with
\* "not accepting registrations" before looking at body.auth.
RegisterUiaaInfo(c, frun, toks, skip_auth) ==
    LET stages == RegisterStages(c, frun, toks)
        params == FirstConfiguredBackend(c, CaptchaBackends(c))
    IN  IF stages # <<>>
        THEN [refused |-> FALSE,
              info |-> [EmptyUiaaInfo EXCEPT !.flows = <<stages>>, !.params = params]]
        ELSE IF ~skip_auth
        THEN IF ~c.open_registration
             THEN [refused |-> TRUE, info |-> EmptyUiaaInfo]
             ELSE [refused |-> FALSE, info |-> [EmptyUiaaInfo EXCEPT !.flows = <<<<Dummy>>>>]]
        ELSE [refused |-> FALSE, info |-> EmptyUiaaInfo]

\* change_password_route (and deactivate, key upload): one password stage.
PasswordUiaaInfo == [EmptyUiaaInfo EXCEPT !.flows = <<<<Password>>>>]

(***************************************************************************)
(* uiaa service: the session store.                                        *)
(***************************************************************************)
\* fn update_uiaa_session: put when Some, del when None
update_uiaa_session_put(db, key, info) == MapPut(db, key, info)

\* an update_uiaa_session(None) that leaves the session in the store
update_uiaa_session_del_Mutant(db, key) == db

update_uiaa_session_del(db, key) == MapDel(db, key)

\* fn set_uiaa_request
set_uiaa_request(reqs, key, body) == MapPut(reqs, key, body)

\* fn get_uiaa_request
get_uiaa_request(reqs, key) == MapGet(reqs, key, "none")

\* "Check if a flow now succeeds": the loop over flows and their stages.
FlowCompleted(info) ==
    \E i \in 1..Len(info.flows) :
        \A j \in 1..Len(info.flows[i]) : Contains(info.completed, info.flows[i][j])

(***************************************************************************)
(* UIA: the steps of a request.  A request is a task; each step below is   *)
(* one access to the shared stores, written as a function from the         *)
(* request's record c and the shared state w to their next values.         *)
(***************************************************************************)
World ==
    [config |-> config, first_run |-> first_run, tokens |-> tokens,
     uiaainfo |-> userdevicesessionid_uiaainfo,
     uiaarequest |-> userdevicesessionid_uiaarequest,
     next_session |-> next_session, executed |-> executed,
     token_accepts |-> token_accepts, succeeded |-> succeeded]

SetWorld(w) ==
    /\ config' = w.config
    /\ first_run' = w.first_run
    /\ tokens' = w.tokens
    /\ userdevicesessionid_uiaainfo' = w.uiaainfo
    /\ userdevicesessionid_uiaarequest' = w.uiaarequest
    /\ next_session' = w.next_session
    /\ executed' = w.executed
    /\ token_accepts' = w.token_accepts
    /\ succeeded' = w.succeeded

\* The request answers: Ok((true, _)) "true", Ok((false, info)) "false", a new
\* session's 401 "uiaa", Err "err" (which carries no UiaaInfo).
Answer(c, result, info) ==
    [c EXCEPT !.pc = "done", !.result = result, !.auth = NoAuth,
              !.info = IF result = "err" THEN EmptyUiaaInfo ELSE info]

NewCall(route, who, ud, auth, required, info) ==
    [IdleCall EXCEPT !.route = route, !.who = who, !.ud = ud, !.auth = auth,
                     !.required = required, !.info = info]

\* a Push that forgets what was completed before
Push_Mutant(info, stage) == [info EXCEPT !.completed = <<stage>>]

Push(info, stage) == [info EXCEPT !.completed = Append(@, stage)]

Forbidden(info) == [info EXCEPT !.auth_error = "forbidden"]

\* The gated operation of a route runs (users.create / users.set_password).
\* A registration that is not a guest's ends first-run mode (account.rs 544-546).
RunOperation(w, route, who, key) ==
    [w EXCEPT !.executed = IF key[3] = NoSession THEN @
                           ELSE MapPut(@, key, MapGet(@, key, 0) + 1),
              !.first_run = IF route = "register" /\ who # "guest" THEN FALSE ELSE @]

\* fn create: store the request body, then the session
create(w, key, info, body) ==
    [w EXCEPT !.uiaarequest = set_uiaa_request(@, key, body),
              !.uiaainfo = update_uiaa_session_put(@, key, info)]

\* fn get_uiaa_session: the stored session, or Forbidden "does not exist"
get_uiaa_session(db, key) ==
    IF key \in DOMAIN db THEN [found |-> TRUE, info |-> db[key]]
    ELSE [found |-> FALSE, info |-> EmptyUiaaInfo]

\* try_auth, lines 96-104: the session the auth data names is loaded (an error
\* when there is none); without one the caller's UiaaInfo is taken and given a
\* fresh session token.
try_auth_begin(c, w) ==
    LET key == Key(c.ud, c.auth.session)
        got == get_uiaa_session(w.uiaainfo, key)
        resub == key \in DOMAIN w.succeeded /\ w.succeeded[key] = c.auth
    IN  IF c.auth.session # NoSession
        THEN IF got.found
             THEN [c |-> [c EXCEPT !.pc = "loaded", !.resubmit = resub, !.info = got.info],
                   w |-> w]
             ELSE [c |-> Answer([c EXCEPT !.resubmit = resub], "err", EmptyUiaaInfo),
                   w |-> w]
        ELSE [c |-> [c EXCEPT !.pc = "loaded", !.info.session = w.next_session],
              w |-> [w EXCEPT !.next_session = @ + 1]]

\* try_auth, lines 185, 222 and 236: the backend a submitted captcha response
\* is verified with, chosen by the secrets that are configured
VerifierBackend(c) ==
    IF c.turnstile_secret_key THEN Turnstile
    ELSE IF c.recaptcha_private_site_key THEN Recaptcha
    ELSE "none"

\* try_auth, lines 106-278: the verifier of the submitted stage.  What it
\* answers at once, or the UiaaInfo it goes on with.
try_auth_verify(c, w) ==
    LET a == c.auth
        go(info) == [c EXCEPT !.pc = "verified", !.info = info]
        v == [c EXCEPT !.verifier = VerifierBackend(w.config)]
        gov(info) == [v EXCEPT !.pc = "verified", !.info = info]
    IN  [w |-> w,
         c |-> CASE a.kind = "password" ->
                    IF a.cred = "error" THEN Answer(c, "err", c.info)
                    ELSE IF a.cred = "bad" THEN Answer(c, "false", Forbidden(c.info))
                    ELSE go(Push(c.info, Password))
              [] a.kind = "recaptcha" ->
                    IF VerifierBackend(w.config) = Turnstile
                    THEN IF a.cred = "ok" THEN gov(Push(c.info, ReCaptcha))
                         ELSE IF a.cred = "bad" THEN Answer(v, "false", Forbidden(c.info))
                         ELSE Answer(v, "err", c.info)
                    ELSE IF VerifierBackend(w.config) = Recaptcha
                    THEN IF a.cred = "ok" THEN gov(Push(c.info, ReCaptcha))
                         ELSE Answer(v, "false", Forbidden(c.info))
                    ELSE Answer(c, "err", c.info)
              [] a.kind = "registration_token" ->
                    IF validate_token(w.tokens, a.token)
                    THEN [c EXCEPT !.pc = "validated"]
                    ELSE Answer(c, "false", Forbidden(c.info))
              [] a.kind = "dummy" -> go(Push(c.info, Dummy))
              [] a.kind = "fallback" -> Answer(c, "false", c.info)
              [] OTHER -> go(c.info)]

\* try_auth, lines 251-255: the validated token is marked as used and the
\* stage is recorded.
try_auth_mark_token(c, w) ==
    [c |-> [c EXCEPT !.pc = "verified", !.info = Push(@, RegistrationToken)],
     w |-> [w EXCEPT !.tokens = mark_token_as_used(@, c.auth.token),
                     !.token_accepts = MapPut(@, c.auth.token, MapGet(@, c.auth.token, 0) + 1)]]

\* try_auth, lines 280-311, and the route after it: when no flow is complete
\* the session is stored and the request answers 401; otherwise the session
\* is removed and the route runs its operation.
try_auth_finish(c, w) ==
    LET key == Key(c.ud, c.info.session)
    IN  IF ~FlowCompleted(c.info)
        THEN [c |-> Answer(c, "false", c.info),
              w |-> [w EXCEPT !.uiaainfo = update_uiaa_session_put(@, key, c.info)]]
        ELSE [c |-> Answer(c, "true", c.info),
              w |-> [RunOperation([w EXCEPT !.uiaainfo = update_uiaa_session_del(@, key)],
                                  c.route, c.who, key)
                     EXCEPT !.succeeded =
                        MapPut(@, key, [c.auth EXCEPT !.session = c.info.session])]]

\* The next step of a request that is under way.
try_auth_step(c, w) ==
    CASE c.pc = "loaded" -> try_auth_verify(c, w)
      [] c.pc = "validated" -> try_auth_mark_token(c, w)
      [] c.pc = "verified" -> try_auth_finish(c, w)
      [] OTHER -> [c |-> c, w |-> w]

\* try_auth from its first line to its return, with the route after it.
try_auth(c, w) ==
    LET r1 == try_auth_begin(c, w)
        r2 == try_auth_step(r1.c, r1.w)
        r3 == try_auth_step(r2.c, r2.w)
    IN  try_auth_step(r3.c, r3.w)

(***************************************************************************)
(* UIA: the routes.                                                        *)
(***************************************************************************)
IssuedSessions == 0..(next_session - 1)

\* The model's bounds on a new request: the gated operation has not yet run
\* MaxOps times on a key, the session it names has room in `completed`, and a
\* session token is left when one will be generated.
CanStart(p, ud, auth) ==
    /\ call[p].pc \in {"idle", "done"}
    /\ \A k \in DOMAIN executed : executed[k] < MaxOps
    /\ auth.session = NoSession => next_session <= MaxSessions
    /\ Key(ud, auth.session) \in DOMAIN userdevicesessionid_uiaainfo
            => Len(userdevicesessionid_uiaainfo[Key(ud, auth.session)].completed) < MaxCompleted

Apply(p, r) ==
    /\ call' = [call EXCEPT ![p] = r.c]
    /\ SetWorld(r.w)
    /\ UNCHANGED <<authVars, joinVars, handlerVars>>

\* register_route, the request as it reaches the UIAA part.
RegisterCall(who, auth) ==
    NewCall("register", who, RegUser, auth, RegisterStages(config, first_run, tokens),
            RegisterUiaaInfo(config, first_run, tokens, who # "user").info)

\* register_route up to its first access to the session store, body.auth
\* absent or the request exempt: refused, the account created (skip_auth), or
\* a session created and returned with 401.
register_route_no_auth(c, w) ==
    IF RegisterUiaaInfo(w.config, w.first_run, w.tokens, c.who # "user").refused
    THEN [c |-> Answer(c, "err", EmptyUiaaInfo), w |-> w]
    ELSE IF c.who # "user"
    THEN [c |-> Answer(c, "true", c.info),
          w |-> RunOperation(w, "register", c.who, Key(RegUser, NoSession))]
    ELSE LET info == [c.info EXCEPT !.session = w.next_session]
         IN  [c |-> Answer(c, "uiaa", info),
              w |-> [create(w, Key(RegUser, w.next_session), info, "register_body")
                     EXCEPT !.next_session = @ + 1]]

\* register_route with body.auth, up to the load of the session.
register_route_begin(c, w) ==
    IF RegisterUiaaInfo(w.config, w.first_run, w.tokens, FALSE).refused
    THEN [c |-> Answer(c, "err", EmptyUiaaInfo), w |-> w]
    ELSE try_auth_begin(c, w)

\* register_route with body.auth, as one step.
register_route(c, w) ==
    IF RegisterUiaaInfo(w.config, w.first_run, w.tokens, FALSE).refused
    THEN [c |-> Answer(c, "err", EmptyUiaaInfo), w |-> w]
    ELSE try_auth(c, w)

PasswordCall(auth) ==
    NewCall("change_password", "user", Alice, auth, <<Password>>, PasswordUiaaInfo)

\* change_password_route without body.auth: a session is created.
change_password_route_no_auth(c, w) ==
    LET info == [c.info EXCEPT !.session = w.next_session]
    IN  [c |-> Answer(c, "uiaa", info),
         w |-> [create(w, Key(Alice, w.next_session), info, "password_body")
                EXCEPT !.next_session = @ + 1]]

(***************************************************************************)
(* UIA: actions.                                                           *)
(***************************************************************************)
RegisterNoAuth(p, who) ==
    /\ CanStart(p, RegUser, NoAuth)
    /\ Apply(p, register_route_no_auth(RegisterCall(who, NoAuth), World))

ChangePasswordNoAuth(p) ==
    /\ CanStart(p, Alice, NoAuth)
    /\ Apply(p, change_password_route_no_auth(PasswordCall(NoAuth), World))

\* one request from its arrival to its answer
RegisterWhole(p, auth) ==
    /\ CanStart(p, RegUser, auth)
    /\ Apply(p, register_route(RegisterCall("user", auth), World))

ChangePasswordWhole(p, auth) ==
    /\ CanStart(p, Alice, auth)
    /\ Apply(p, try_auth(PasswordCall(auth), World))

\* the same requests, one access to the shared stores at a time
RegisterBegin(p, auth) ==
    /\ CanStart(p, RegUser, auth)
    /\ Apply(p, register_route_begin(RegisterCall("user", auth), World))

ChangePasswordBegin(p, auth) ==
    /\ CanStart(p, Alice, auth)
    /\ Apply(p, try_auth_begin(PasswordCall(auth), World))

TryAuthStep(p) ==
    /\ call[p].pc \in {"loaded", "validated", "verified"}
    /\ Apply(p, try_auth_step(call[p], World))

\* The administrator reloads the configuration.
ConfigReload(c) ==
    /\ c # config
    /\ config' = c
    /\ UNCHANGED <<first_run, tokens, userdevicesessionid_uiaainfo,
                   userdevicesessionid_uiaarequest, next_session, call, executed,
                   token_accepts, succeeded, authVars, joinVars, handlerVars>>

\* The administrator issues a registration token with a number of uses.
IssueToken(t, uses) ==
    /\ t \notin DOMAIN tokens
    /\ tokens' = MapPut(tokens, t, uses)
    /\ UNCHANGED <<config, first_run, userdevicesessionid_uiaainfo,
                   userdevicesessionid_uiaarequest, next_session, call, executed,
                   token_accepts, succeeded, authVars, joinVars, handlerVars>>

(***************************************************************************)
(* UIA: specifications.                                                    *)
(*   SpecUiaSeq   requests are made one at a time, each from its arrival   *)
(*                to its answer;                                           *)
(*   SpecUiaAdmin the same, while the administrator reloads the            *)
(*                configuration and issues registration tokens;            *)
(*   SpecUiaConc  two requests run concurrently, interleaved at their      *)
(*                accesses to the shared stores.                           *)
(***************************************************************************)
TokenStores == {EmptyMap} \cup {[t \in TokenNames |-> n] : n \in 1..MaxUses}

InitUiaStores ==
    /\ config \in UiaConfigs
    /\ first_run \in Booleans
    /\ userdevicesessionid_uiaainfo = EmptyMap
    /\ userdevicesessionid_uiaarequest = EmptyMap
    /\ next_session = 1
    /\ call = [p \in Procs |-> IdleCall]
    /\ executed = EmptyMap
    /\ token_accepts = EmptyMap
    /\ succeeded = EmptyMap
    /\ AuthAtRest
    /\ JoinAtRest
    /\ HandlersAtRest

InitUia == InitUiaStores /\ tokens \in TokenStores

InitUiaAdmin == InitUiaStores /\ tokens = EmptyMap

\* The concurrent requests run on a server past its first run, with open
\* registration.
InitUiaConc == InitUia /\ ~first_run /\ config.open_registration

Callers == {"user", "appservice", "guest"}

NextUiaSeq ==
    \/ \E who \in Callers : RegisterNoAuth("p1", who)
    \/ ChangePasswordNoAuth("p1")
    \/ \E auth \in RegisterAuthInputs(IssuedSessions) : RegisterWhole("p1", auth)
    \/ \E auth \in PasswordAuthInputs(IssuedSessions) : ChangePasswordWhole("p1", auth)

NextUiaAdmin ==
    \/ NextUiaSeq
    \/ \E c \in UiaConfigs : ConfigReload(c)
    \/ \E t \in TokenNames, uses \in 1..MaxUses : IssueToken(t, uses)

NextUiaConc ==
    \E p \in Procs :
        \/ RegisterNoAuth(p, "user")
        \/ ChangePasswordNoAuth(p)
        \/ \E auth \in RegisterAuthInputs(IssuedSessions) : RegisterBegin(p, auth)
        \/ \E auth \in PasswordAuthInputs(IssuedSessions) : ChangePasswordBegin(p, auth)
        \/ TryAuthStep(p)

SpecUiaSeq == InitUia /\ [][NextUiaSeq]_vars

SpecUiaAdmin == InitUiaAdmin /\ [][NextUiaAdmin]_vars

SpecUiaConc == InitUiaConc /\ [][NextUiaConc]_vars

\* The registration route under every configuration of the captcha keys and
\* of the backend order.
InitUiaFlow ==
    /\ config \in AllConfigs
    /\ first_run \in Booleans
    /\ tokens \in TokenStores
    /\ userdevicesessionid_uiaainfo = EmptyMap
    /\ userdevicesessionid_uiaarequest = EmptyMap
    /\ next_session = 1
    /\ call = [p \in Procs |-> IdleCall]
    /\ executed = EmptyMap
    /\ token_accepts = EmptyMap
    /\ succeeded = EmptyMap
    /\ AuthAtRest
    /\ JoinAtRest
    /\ HandlersAtRest

NextUiaFlow ==
    \/ \E who \in Callers : RegisterNoAuth("p1", who)
    \/ \E auth \in RegisterAuthInputs(IssuedSessions) : RegisterWhole("p1", auth)

SpecUiaFlow == InitUiaFlow /\ [][NextUiaFlow]_vars

(***************************************************************************)
(* UIA: properties.                                                        *)
(***************************************************************************)
IsPrefix(s, t) == Len(s) <= Len(t) /\ \A i \in 1..Len(s) : s[i] = t[i]

\* a request that went through try_auth and got Ok((_, uiaainfo))
Returned(c) == c.pc = "done" /\ c.who = "user" /\ c.result \in {"true", "false"}

SomeFlowIn(info) ==
    \E i \in 1..Len(info.flows) : Range(info.flows[i]) \subseteq Range(info.completed)

\* C1: over a sequence of try_auth calls the stored `completed` list of a
\* session only grows (what was stored stays, in place, as a prefix), and a
\* call returns success exactly when, after the submitted stage has been
\* processed, every stage of at least one flow is in `completed`.
C1_CompletedGrowsSuccessIffFlow ==
    [][/\ \A k \in (DOMAIN userdevicesessionid_uiaainfo)
                        \cap (DOMAIN userdevicesessionid_uiaainfo') :
              IsPrefix(userdevicesessionid_uiaainfo[k].completed,
                       userdevicesessionid_uiaainfo'[k].completed)
       /\ \A p \in Procs :
              Returned(call'[p]) =>
                  (call'[p].result = "true" <=> SomeFlowIn(call'[p].info))]_vars

\* C1, its case: a session whose flow has two stages, completed by a second
\* call that added to what the first had stored.
C1_Witness ==
    \E p \in Procs :
        /\ Returned(call[p])
        /\ call[p].result = "true"
        /\ Len(call[p].info.flows[1]) = 2
        /\ Len(call[p].info.completed) = 2

\* C4 as stated: a registration that is neither an appservice's nor a guest's
\* creates the account only if every stage the configuration in force when
\* the request is processed requires is in `completed`.
C4_RequiredStagesCompleted ==
    \A p \in Procs :
        (/\ call[p].pc = "done"
         /\ call[p].route = "register"
         /\ call[p].who = "user"
         /\ call[p].result = "true")
            => Range(call[p].required) \subseteq Range(call[p].info.completed)

\* C5 as stated: a token issued with one use satisfies the token stage of at
\* most one submission.
C5_TokenAcceptedOnce ==
    \A t \in DOMAIN token_accepts : token_accepts[t] <= MaxUses

C10_OperationAtMostOnce ==
    \A k \in DOMAIN executed : executed[k] <= 1

\* C11 as stated: once try_auth has returned success for a user, device and
\* session, nothing is stored under that key any more: neither the session's
\* UiaaInfo nor the body of the original request.
C11_NothingKeptAfterSuccess ==
    \A k \in DOMAIN succeeded :
        /\ k \notin DOMAIN userdevicesessionid_uiaainfo
        /\ k \notin DOMAIN userdevicesessionid_uiaarequest

\* the request has answered after its stage was verified and recorded
StageVerified(c, stage) ==
    /\ c.pc = "done"
    /\ c.result \in {"false", "true"}
    /\ c.info.auth_error = "none"
    /\ c.info.completed # <<>>
    /\ c.info.completed[Len(c.info.completed)] = stage

\* C30: when two try_auth calls for one session, each with another stage that
\* verifies, run concurrently, no update is lost: the session's completed
\* list holds both stages afterwards, or the session has completed and is
\* deleted.
C30_NoLostUpdate ==
    \A p \in Procs, q \in Procs :
        \A s1 \in {RegistrationToken, ReCaptcha}, s2 \in {RegistrationToken, ReCaptcha} :
            ( /\ p # q
              /\ s1 # s2
              /\ StageVerified(call[p], s1)
              /\ StageVerified(call[q], s2)
              /\ call[p].ud = call[q].ud
              /\ call[p].info.session = call[q].info.session )
            => LET key == Key(call[p].ud, call[p].info.session)
               IN  \/ key \notin DOMAIN userdevicesessionid_uiaainfo
                   \/ /\ Contains(userdevicesessionid_uiaainfo[key].completed, s1)
                      /\ Contains(userdevicesessionid_uiaainfo[key].completed, s2)

\* the request body a session of the key was begun with
OriginalBody(key) == IF <<key[1], key[2]>> = RegUser THEN "register_body" ELSE "password_body"

\* C31: every live UIA session has its original request body stored with it,
\* which get_uiaa_request returns unchanged as long as the session exists;
\* also a session that try_auth has created itself for a stage submitted
\* without a session token.
C31_SessionHasRequest ==
    \A key \in DOMAIN userdevicesessionid_uiaainfo :
        get_uiaa_request(userdevicesessionid_uiaarequest, key) = OriginalBody(key)

\* a registration request has been answered with its UiaaInfo
RegistrationAnswered(c) == c.pc = "done" /\ c.route = "register" /\ c.result # "err"

\* both keys of the backend are configured
FullyConfigured(c, backend) ==
    CASE backend = Turnstile -> c.turnstile_site_key /\ c.turnstile_secret_key
      [] backend = Recaptcha -> c.recaptcha_site_key /\ c.recaptcha_private_site_key
      [] OTHER -> FALSE

\* the first backend of the order that is fully configured, if there is one
FirstFullyConfigured(c, order) ==
    LET found == {i \in 1..Len(order) : FullyConfigured(c, order[i])}
    IN  IF found = {} THEN "none"
        ELSE order[CHOOSE i \in found : \A j \in found : i <= j]

\* the number of captcha stages in the flows of a UiaaInfo
CaptchaStages(info) ==
    Cardinality({<<i, j>> \in (1..Len(info.flows)) \X (1..2) :
                    j <= Len(info.flows[i]) /\ info.flows[i][j] = ReCaptcha})

\* C32: a registration flow has at most one captcha stage, that of the first
\* backend of the configured order which has both its public and its private
\* key; with no order configured the order tried is turnstile, recaptcha.
C32_CaptchaBackendChosen ==
    \A p \in Procs :
        RegistrationAnswered(call[p]) =>
            LET order == IF config.authenticated_flow = <<>>
                         THEN <<Turnstile, Recaptcha>>
                         ELSE config.authenticated_flow
                chosen == FirstFullyConfigured(config, order)
            IN  /\ CaptchaStages(call[p].info) = (IF chosen = "none" THEN 0 ELSE 1)
                /\ call[p].info.params = chosen

\* no registration-token policy is active and no captcha backend is fully
\* configured
NothingConfigured ==
    /\ ~first_run
    /\ DOMAIN tokens = {}
    /\ ~FullyConfigured(config, Turnstile)
    /\ ~FullyConfigured(config, Recaptcha)

\* C33: with no registration-token policy active and no captcha backend
\* fully configured, a registration that is neither an appservice's nor a
\* guest's is refused unless the open-registration flag is set; with the flag
\* set, the flows of the session are one flow of the one stage dummy.
C33_OpenRegistrationOnly ==
    \A p \in Procs :
        ( /\ NothingConfigured
          /\ call[p].pc = "done"
          /\ call[p].route = "register"
          /\ call[p].who = "user" )
        => IF config.open_registration
           THEN call[p].result = "uiaa" =>
                    /\ call[p].info.flows = <<<<Dummy>>>>
                    /\ LET key == Key(call[p].ud, call[p].info.session)
                       IN  /\ key \in DOMAIN userdevicesessionid_uiaainfo
                           /\ userdevicesessionid_uiaainfo[key].flows = <<<<Dummy>>>>
           ELSE call[p].result = "err"

\* C33, its cases: a registration has been refused where nothing is
\* configured and the flag is not set; and where the flag is set, a session
\* with the dummy flow has been created.
C33_Witness ==
    /\ NothingConfigured
    /\ call["p1"].pc = "done"
    /\ call["p1"].route = "register"
    /\ call["p1"].who = "user"
    /\ \/ ~config.open_registration /\ call["p1"].result = "err"
       \/ /\ config.open_registration
          /\ call["p1"].result = "uiaa"
          /\ userdevicesessionid_uiaainfo # EmptyMap

\* C39: whatever keys and backend order are configured, the backend with
\* which try_auth verifies a submitted captcha response is the backend that
\* register_route has chosen for the flow and whose public key it has put
\* into the parameters of the flow.
C39_VerifierIsChosenBackend ==
    \A p \in Procs :
        LET chosen == FirstConfiguredBackend(config, CaptchaBackends(config))
        IN  ( /\ call[p].pc = "done"
              /\ call[p].route = "register"
              /\ call[p].verifier # "none"
              /\ chosen # "none" )
            => call[p].verifier = chosen

(***************************************************************************)
(* Event authorization: types.                                             *)
(***************************************************************************)
None == "none"

\* Int::MAX, the power of a creator in the versions that privilege them: above
\* every level an event of the model carries (the largest integer of the checker)
IntMax == 2147483647

\* Option<T> of a level or of an event's content: Nothing, or Some(x)
Nothing == <<>>
Some(x) == <<x>>
IsSome(o) == Len(o) = 1

\* Option<&Int> in a comparison: None is below every Some
OptGe(p, lvl) == IsSome(p) /\ p[1] >= lvl
OptLt(a, b) == IF ~IsSome(b) THEN FALSE ELSE IF ~IsSome(a) THEN TRUE ELSE a[1] < b[1]
OptGt(a, b) == OptLt(b, a)

UserC == "@c:s"
UserA == "@a:s"
UserB == "@b:t"

CreateEventId == "$create"
OtherEventId == "$other"

\* The room version flags the rules read (state_res/room_version.rs).
RoomVersionFlags(limit, knock, knock_restricted, create_sender, explicit, hashes, aliases, redaction) ==
    [limit_notifications_power_levels |-> limit,
     allow_knocking |-> knock,
     knock_restricted_join_rule |-> knock_restricted,
     use_room_create_sender |-> create_sender,
     explicitly_privilege_room_creators |-> explicit,
     room_ids_as_hashes |-> hashes,
     special_case_aliases_auth |-> aliases,
     extra_redaction_checks |-> redaction]

V1 == RoomVersionFlags(FALSE, FALSE, FALSE, FALSE, FALSE, FALSE, TRUE, TRUE)
V7 == RoomVersionFlags(TRUE, TRUE, FALSE, FALSE, FALSE, FALSE, FALSE, FALSE)
V10 == RoomVersionFlags(TRUE, TRUE, TRUE, FALSE, FALSE, FALSE, FALSE, FALSE)
V11 == RoomVersionFlags(TRUE, TRUE, TRUE, TRUE, FALSE, FALSE, FALSE, FALSE)
V12 == RoomVersionFlags(TRUE, TRUE, TRUE, TRUE, TRUE, TRUE, FALSE, FALSE)

RoomVersions == {V1, V7, V10, V11, V12}

Memberships == {"join", "invite", "leave", "ban", "knock"}

\* a membership event of the state, or none
MemberEvents == Memberships \cup {None}

JoinRules == {"invite", "knock", "knock_restricted", "restricted", "public", "private"}

\* RoomPowerLevelsEventContent::default()
DefaultPowerLevels ==
    [users |-> EmptyMap, users_default |-> 0, events |-> EmptyMap, events_default |-> 0,
     state_default |-> 50, ban |-> 50, kick |-> 50, redact |-> 50, invite |-> 0,
     notifications_room |-> 50]

\* a user without a member event taken for a joined one
MembershipOf_Mutant(ev) == IF ev = None THEN "join" ELSE ev

\* GetMembership of an optional member event: no event reads as leave
MembershipOf(ev) == IF ev = None THEN "leave" ELSE ev

(***************************************************************************)
(* Event authorization: the membership rules (event_auth.rs 620-1187).     *)
(***************************************************************************)
is_creator(v, c, ce, user_id, have_pls) ==
    IF v.explicitly_privilege_room_creators THEN user_id \in c
    ELSE IF v.use_room_create_sender /\ ~have_pls THEN ce.sender = user_id
    ELSE IF ~have_pls THEN ce.creator = user_id
    ELSE FALSE

\* an `invite` rule that lets everyone in
JoinRuleAllows_InviteMutant(v, join_rules, membership_allows_join, user_for_join_auth_is_valid) ==
    CASE join_rules = "invite" -> TRUE
      [] join_rules = "knock" -> v.allow_knocking /\ membership_allows_join
      [] join_rules = "knock_restricted" ->
            v.knock_restricted_join_rule
                /\ (membership_allows_join \/ user_for_join_auth_is_valid)
      [] join_rules = "restricted" -> membership_allows_join \/ user_for_join_auth_is_valid
      [] join_rules = "public" -> TRUE
      [] OTHER -> FALSE

\* a `restricted` rule that does not look at the authorising user
JoinRuleAllows_RestrictedMutant(v, join_rules, membership_allows_join, user_for_join_auth_is_valid) ==
    CASE join_rules = "invite" -> membership_allows_join
      [] join_rules = "knock" -> v.allow_knocking /\ membership_allows_join
      [] join_rules = "knock_restricted" ->
            v.knock_restricted_join_rule
                /\ (membership_allows_join \/ user_for_join_auth_is_valid)
      [] join_rules = "restricted" -> membership_allows_join
      [] join_rules = "public" -> TRUE
      [] OTHER -> FALSE

\* the join rule of the room lets the target in
JoinRuleAllows(v, join_rules, membership_allows_join, user_for_join_auth_is_valid) ==
    CASE join_rules = "invite" -> membership_allows_join
      [] join_rules = "knock" -> v.allow_knocking /\ membership_allows_join
      [] join_rules = "knock_restricted" ->
            v.knock_restricted_join_rule
                /\ (membership_allows_join \/ user_for_join_auth_is_valid)
      [] join_rules = "restricted" -> membership_allows_join \/ user_for_join_auth_is_valid
      [] join_rules = "public" -> TRUE
      [] OTHER -> FALSE

\* a join ladder without the ban rule
JoinOfSelf_Mutant(sender, target_user, target_user_current_membership, rule_allows) ==
    IF sender # target_user THEN FALSE ELSE rule_allows

\* a join past the creator's first join: the sender joins themselves, is not
\* banned, and the join rule lets them in
JoinOfSelf(sender, target_user, target_user_current_membership, rule_allows) ==
    IF sender # target_user THEN FALSE
    ELSE IF target_user_current_membership = "ban" THEN FALSE
    ELSE rule_allows

\* Base64::parse of a token: the bytes it encodes, or an error
Base64Parse(token) ==
    CASE token = "tok1" -> Some("key1")
      [] token = "tok2" -> Some("bytes2")
      [] OTHER -> Nothing

verify_third_party_invite(target_user, sender, tp_id, current_third_party_invite) ==
    IF target_user # tp_id.mxid THEN FALSE
    ELSE IF ~IsSome(current_third_party_invite) THEN FALSE
    ELSE LET current_tpid == current_third_party_invite[1]
             decoded_invite_token == Base64Parse(tp_id.token)
         IN  IF current_tpid.state_key # tp_id.token THEN FALSE
             ELSE IF sender # current_tpid.sender THEN FALSE
             ELSE IF ~current_tpid.content_ok THEN FALSE
             ELSE IF ~IsSome(decoded_invite_token) THEN FALSE
             ELSE \/ \E key \in current_tpid.public_keys : key = decoded_invite_token[1]
                  \/ current_tpid.public_key = decoded_invite_token[1]

valid_membership_change(i) ==
    LET v == i.room_version
        target_membership == i.target_membership
        sender_membership == MembershipOf(i.sender_membership_event)
        sender_is_joined == sender_membership = "join"
        target_user_current_membership == MembershipOf(i.target_user_membership_event)
        have_pls == IsSome(i.power_levels_event)
        power_levels == IF have_pls THEN i.power_levels_event[1] ELSE DefaultPowerLevels
        creators ==
            {i.create_room.sender} \cup
                (IF v.explicitly_privilege_room_creators
                 THEN i.create_room.additional_creators ELSE {})
        sender_power ==
            IF v.explicitly_privilege_room_creators /\ i.sender \in creators
            THEN Some(IntMax)
            ELSE IF i.sender \in DOMAIN power_levels.users
            THEN Some(power_levels.users[i.sender])
            ELSE IF sender_is_joined THEN Some(power_levels.users_default)
            ELSE Nothing
        target_power ==
            IF v.explicitly_privilege_room_creators /\ i.target_user \in creators
            THEN Some(IntMax)
            ELSE IF i.target_user \in DOMAIN power_levels.users
            THEN Some(power_levels.users[i.target_user])
            ELSE IF target_membership = "join" THEN Some(power_levels.users_default)
            ELSE Nothing
        join_rules == IF i.join_rules_event # None THEN i.join_rules_event ELSE "invite"
        user_for_join_auth_is_valid ==
            IF i.user_for_join_auth # None
            THEN LET auth_user_pl ==
                        IF ~have_pls THEN 0
                        ELSE IF i.user_for_join_auth \in DOMAIN power_levels.users
                        THEN power_levels.users[i.user_for_join_auth]
                        ELSE power_levels.users_default
                     invite_level == IF have_pls THEN power_levels.invite ELSE 0
                     user_joined == i.user_for_join_auth_membership = "join"
                     okay_power ==
                        is_creator(v, creators, i.create_room, i.user_for_join_auth, have_pls)
                            \/ auth_user_pl >= invite_level
                 IN  user_joined /\ okay_power
            ELSE FALSE
        sender_creator == is_creator(v, creators, i.create_room, i.sender, have_pls)
        target_creator == is_creator(v, creators, i.create_room, i.target_user, have_pls)
        prev_event_is_create_event ==
            Len(i.prev_events) >= 1 /\ i.prev_events[1] = i.create_room.event_id
        no_more_prev_events == Len(i.prev_events) <= 1
        membership_allows_join == target_user_current_membership \in {"join", "invite"}
        can_unban ==
            IF target_user_current_membership = "ban"
            THEN sender_creator \/ OptGe(sender_power, power_levels.ban)
            ELSE TRUE
        can_kick ==
            IF target_user_current_membership \notin {"ban", "leave"}
            THEN IF sender_creator THEN TRUE
                 ELSE IF ~OptGe(sender_power, power_levels.kick) THEN FALSE
                 ELSE IF IsSome(target_power) THEN sender_power[1] > target_power[1]
                 ELSE TRUE
            ELSE TRUE
    IN  CASE target_membership = "join" ->
                IF prev_event_is_create_event /\ no_more_prev_events
                        /\ sender_creator /\ target_creator
                THEN TRUE
                ELSE JoinOfSelf(i.sender, i.target_user, target_user_current_membership,
                                JoinRuleAllows(v, join_rules, membership_allows_join,
                                               user_for_join_auth_is_valid))
          [] target_membership = "invite" ->
                IF IsSome(i.third_party_invite) /\ i.third_party_invite[1].ok
                THEN IF target_user_current_membership = "ban" THEN FALSE
                     ELSE verify_third_party_invite(i.target_user, i.sender,
                                                    i.third_party_invite[1],
                                                    i.current_third_party_invite)
                ELSE IF ~sender_is_joined THEN FALSE
                ELSE IF target_user_current_membership \in {"join", "ban"} THEN FALSE
                ELSE sender_creator \/ OptGe(sender_power, power_levels.invite)
          [] target_membership = "leave" ->
                IF i.sender = i.target_user
                THEN target_user_current_membership \in {"join", "invite", "knock"}
                ELSE IF ~sender_is_joined THEN FALSE
                ELSE can_unban /\ can_kick
          [] target_membership = "ban" ->
                IF ~sender_is_joined THEN FALSE
                ELSE sender_creator
                        \/ (OptGe(sender_power, power_levels.ban)
                                /\ OptLt(target_power, sender_power))
          [] target_membership = "knock" /\ v.allow_knocking ->
                IF join_rules \notin {"knock_restricted", "knock"} THEN FALSE
                ELSE IF join_rules = "knock_restricted" /\ ~v.knock_restricted_join_rule
                THEN FALSE
                ELSE IF i.sender # i.target_user THEN FALSE
                ELSE sender_membership \notin {"ban", "invite", "join"}
          [] OTHER -> FALSE

(***************************************************************************)
(* Event authorization: the power-levels change rule (1227-1448).          *)
(***************************************************************************)
\* the top-level scalar levels, in the order the rule visits them
levels == <<"users_default", "events_default", "state_default", "ban", "redact",
            "kick", "invite">>

\* serde_json::to_value of a RoomPowerLevelsEventContent, in the fields the rule
\* reads back: ruma serializes a scalar level only when it differs from the
\* field's default (skip_serializing_if).
to_value(content) ==
    [f \in {g \in Range(levels) : content[g] # DefaultPowerLevels[g]} |-> content[f]]

get_deserialize_levels(old, new, name) ==
    IF name \in DOMAIN old /\ name \in DOMAIN new
    THEN Some(<<old[name], new[name]>>)
    ELSE Nothing

\* BTreeMap::get
Get(map, k) == IF k \in DOMAIN map THEN Some(map[k]) ELSE Nothing

\* one round of the loops over users and over event types: the entry is
\* refused
LevelRefused(old_level, new_level, user_level) ==
    /\ ~(IsSome(old_level) /\ IsSome(new_level) /\ old_level = new_level)
    /\ OptGt(old_level, Some(user_level)) \/ OptGt(new_level, Some(user_level))

UserRefused(user, old_state, new_state, sender, user_level, creators) ==
    LET old_level == Get(old_state.users, user)
        new_level == Get(new_state.users, user)
    IN  \/ IsSome(new_level) /\ user \in creators
        \/ /\ ~(IsSome(old_level) /\ IsSome(new_level) /\ old_level = new_level)
           /\ \/ user # sender /\ old_level = Some(user_level)
              \/ OptGt(old_level, Some(user_level))
              \/ OptGt(new_level, Some(user_level))

\* Some(true) "allow", Some(false) "deny", None "none"
check_power_levels(i) ==
    IF i.state_key # ""
    THEN "none"
    ELSE IF ~i.content_ok
    THEN "none"
    ELSE IF ~IsSome(i.previous)
    THEN "allow"
    ELSE IF ~i.previous_ok
    THEN "none"
    ELSE LET old_state == i.previous[1]
             new_state == i.content
             user_levels_to_check == (DOMAIN old_state.users) \cup (DOMAIN new_state.users)
             event_levels_to_check == (DOMAIN old_state.events) \cup (DOMAIN new_state.events)
             old_value == to_value(old_state)
             new_value == to_value(new_state)
         IN  IF \E user \in user_levels_to_check :
                    UserRefused(user, old_state, new_state, i.sender, i.user_level, i.creators)
             THEN "deny"
             ELSE IF \E ev_type \in event_levels_to_check :
                    LevelRefused(Get(old_state.events, ev_type), Get(new_state.events, ev_type),
                                 i.user_level)
             THEN "deny"
             ELSE IF /\ i.room_version.limit_notifications_power_levels
                     /\ old_state.notifications_room # new_state.notifications_room
                     /\ \/ old_state.notifications_room > i.user_level
                        \/ new_state.notifications_room > i.user_level
             THEN "deny"
             ELSE IF \E n \in 1..Len(levels) :
                    LET got == get_deserialize_levels(old_value, new_value, levels[n])
                    IN  IsSome(got) /\ (got[1][1] > i.user_level \/ got[1][2] > i.user_level)
             THEN "deny"
             ELSE "allow"

(***************************************************************************)
(* Event authorization: the m.room.create rule (auth_check, 185-238).      *)
(***************************************************************************)
\* UserId::server_name
ServerOf(user) ==
    CASE user = "@c:s" -> "s"
      [] user = "@a:s" -> "s"
      [] OTHER -> "t"

\* Raw<RoomVersionId>::deserialize: a string that names no known version
\* deserializes to a custom version id; only a value that is no version
\* string at all is an error
RoomVersionIdDeserializes(room_version) == room_version # "malformed"

\* Some(true) "allow", Some(false) "deny", Err "error"
auth_check_create(i) ==
    IF i.prev_events # <<>> THEN "deny"
    ELSE IF IsSome(i.room_id) /\ ~IsSome(i.room_id[1]) THEN "deny"
    ELSE IF IsSome(i.room_id) /\ i.room_id[1][1] # ServerOf(i.sender) THEN "deny"
    ELSE IF ~i.content_ok THEN "error"
    ELSE IF IsSome(i.content.room_version)
                /\ ~RoomVersionIdDeserializes(i.content.room_version[1])
    THEN "deny"
    ELSE IF i.room_version.room_ids_as_hashes /\ IsSome(i.room_id) THEN "deny"
    ELSE IF /\ ~i.room_version.use_room_create_sender
            /\ ~i.room_version.explicitly_privilege_room_creators
            /\ ~i.content.creator
    THEN "deny"
    ELSE "allow"

(***************************************************************************)
(* Event authorization: the events and states the rules are applied to.    *)
(***************************************************************************)
\* rooms: a version, and the additional_creators of the create event
RoomSetups == {<<v, {}>> : v \in RoomVersions} \cup {<<V12, {UserA}>>}

RoomUsers == {UserC, UserA}

PlCreatorAdmin == [DefaultPowerLevels EXCEPT !.users = (UserC :> 100)]
PlModerated ==
    [DefaultPowerLevels EXCEPT !.users = (UserC :> 100 @@ UserA :> 50), !.invite = 50]

\* inviting needs 50, and no user has a level of their own
PlInviteRaised == [DefaultPowerLevels EXCEPT !.invite = 50]

\* every user without a level of their own has 50
PlDefaultRaised == [DefaultPowerLevels EXCEPT !.users_default = 50]

PlChoices ==
    {Nothing, Some(DefaultPowerLevels), Some(PlCreatorAdmin), Some(PlModerated),
     Some(PlInviteRaised), Some(PlDefaultRaised)}

PrevChoices == {<<CreateEventId>>, <<CreateEventId, OtherEventId>>, <<OtherEventId>>}

\* join_authorised_via_users_server and that user's membership
JoinAuthChoices ==
    {<<None, "leave">>, <<UserC, "join">>, <<UserC, "leave">>, <<UserA, "join">>}

\* sender, target and their member events in the state: one event when the
\* sender is the target
MemberPairs ==
    {q \in RoomUsers \X RoomUsers \X MemberEvents \X MemberEvents :
        q[1] = q[2] => q[3] = q[4]}

MemberInput(r, pl, q, tm, jr, prev, ja, tpi, cur) ==
    [rule |-> "member",
     room_version |-> r[1],
     create_room |-> [event_id |-> CreateEventId, sender |-> UserC, creator |-> UserC,
                      additional_creators |-> r[2]],
     power_levels_event |-> pl,
     sender |-> q[1],
     target_user |-> q[2],
     sender_membership_event |-> q[3],
     target_user_membership_event |-> q[4],
     target_membership |-> tm,
     join_rules_event |-> jr,
     prev_events |-> prev,
     user_for_join_auth |-> ja[1],
     user_for_join_auth_membership |-> ja[2],
     third_party_invite |-> tpi,
     current_third_party_invite |-> cur]

\* join events: the sender's own member event matters only as the target's
JoinInputs ==
    \E r \in RoomSetups, pl \in PlChoices,
       q \in {x \in MemberPairs : x[1] # x[2] => x[3] = None},
       jr \in JoinRules \cup {None}, prev \in PrevChoices, ja \in JoinAuthChoices :
        auth_in = MemberInput(r, pl, q, "join", jr, prev, ja, Nothing, Nothing)

InviteInputs ==
    \E r \in RoomSetups, pl \in PlChoices, q \in MemberPairs :
        auth_in = MemberInput(r, pl, q, "invite", None, <<OtherEventId>>,
                              <<None, "leave">>, Nothing, Nothing)

\* the third_party_invite of an invite's content: one that does not
\* deserialize, or the signed block with its mxid, its token and the key
\* whose signature it carries
ThirdPartyInvites ==
    {[ok |-> FALSE, mxid |-> UserA, token |-> "tok1", signed_by |-> "key1"]} \cup
    {[ok |-> TRUE, mxid |-> m, token |-> t, signed_by |-> k] :
        m \in {UserA, UserC}, t \in {"tok1", "tok2", "tok!"}, k \in {"key1", "key2"}}

\* the m.room.third_party_invite event of the state, if any: its state key,
\* its sender, and the public keys of its content
CurrentThirdPartyInvites ==
    {Nothing} \cup
    {Some([state_key |-> sk, sender |-> u, content_ok |-> ok, public_keys |-> pks,
           public_key |-> pk]) :
        sk \in {"tok1", "tok2"}, u \in {UserC, UserA}, ok \in Booleans,
        pks \in {{}, {"key2"}}, pk \in {"key1", "key2"}}

\* invites of @a:s by @c:s whose content has a third_party_invite
ThirdPartyInviteInputs ==
    \E pl \in {Nothing, Some(PlModerated)}, se \in {"join", None},
       te \in {None, "leave", "ban"}, tpi \in ThirdPartyInvites,
       cur \in CurrentThirdPartyInvites :
        auth_in = MemberInput(<<V10, {}>>, pl, <<UserC, UserA, se, te>>, "invite", None,
                              <<OtherEventId>>, <<None, "leave">>, Some(tpi), cur)

LeaveBanInputs ==
    \E r \in RoomSetups, pl \in PlChoices, q \in MemberPairs, tm \in {"leave", "ban"} :
        auth_in = MemberInput(r, pl, q, tm, None, <<OtherEventId>>, <<None, "leave">>,
                              Nothing, Nothing)

KnockInputs ==
    \E r \in RoomSetups, pl \in PlChoices, q \in MemberPairs, jr \in JoinRules \cup {None} :
        auth_in = MemberInput(r, pl, q, "knock", jr, <<OtherEventId>>,
                              <<None, "leave">>, Nothing, Nothing)

MemberInputs ==
    JoinInputs \/ InviteInputs \/ ThirdPartyInviteInputs \/ LeaveBanInputs \/ KnockInputs

\* power-levels contents: one user, one event type, the notification level
\* and one scalar level are set; every other field has its default
OneEntry(k, lvl) == IF IsSome(lvl) THEN (k :> lvl[1]) ELSE EmptyMap

Content(user, user_lvl, ev_lvl, notif, field, value) ==
    [DefaultPowerLevels EXCEPT !.users = OneEntry(user, user_lvl),
                               !.events = OneEntry("m.room.name", ev_lvl),
                               !.notifications_room = notif,
                               ![field] = value]

Levels == {0, 50, 100}
EntryLevels == {Nothing, Some(50), Some(100)}
EventLevelChanges == {<<Nothing, Nothing>>, <<Nothing, Some(100)>>, <<Some(100), Some(50)>>}
NotificationChanges == {<<50, 50>>, <<50, 100>>}

\* versions with the creators check_power_levels is given for them
PowerLevelRooms == {<<V1, {}>>, <<V10, {}>>, <<V12, {UserC}>>}

PowerLevelsInput(r, user_level, state_key, previous, previous_ok, content, content_ok) ==
    [rule |-> "power_levels",
     room_version |-> r[1],
     creators |-> r[2],
     sender |-> UserA,
     user_level |-> user_level,
     state_key |-> state_key,
     previous |-> previous,
     previous_ok |-> previous_ok,
     content |-> content,
     content_ok |-> content_ok]

PowerLevelChangeInputs ==
    \E r \in PowerLevelRooms, ul \in {0, 50}, u \in {UserA, UserB, UserC},
       uo \in EntryLevels, un \in EntryLevels, ev \in EventLevelChanges,
       nt \in NotificationChanges, f \in Range(levels), fo \in Levels, fn \in Levels :
        auth_in = PowerLevelsInput(r, ul, "",
                                   Some(Content(u, uo, ev[1], nt[1], f, fo)), TRUE,
                                   Content(u, un, ev[2], nt[2], f, fn), TRUE)

\* no previous event, a state key that is not "", content that does not parse
PowerLevelOtherInputs ==
    \E sk \in {"", "x"}, prev \in {Nothing, Some(DefaultPowerLevels)},
       pok \in Booleans, cok \in Booleans :
        auth_in = PowerLevelsInput(<<V10, {}>>, 50, sk, prev, pok, PlModerated, cok)

PowerLevelInputs == PowerLevelChangeInputs \/ PowerLevelOtherInputs

\* m.room.create events: the room id the event carries, if any, with its
\* server name, if it has one; content.room_version, if present, as a known
\* version, a string that names none, or a value that is no version string
CreateInputs ==
    \E v \in RoomVersions, sender \in {UserC, UserB},
       prev \in {<<>>, <<OtherEventId>>},
       room_id \in {Nothing, Some(Nothing), Some(Some("s")), Some(Some("t"))},
       content_ok \in Booleans,
       room_version \in {Nothing, Some("supported"), Some("unrecognised"),
                         Some("malformed")},
       creator \in Booleans :
        auth_in = [rule |-> "create", room_version |-> v, sender |-> sender,
                   prev_events |-> prev, room_id |-> room_id, content_ok |-> content_ok,
                   content |-> [room_version |-> room_version, creator |-> creator]]

(***************************************************************************)
(* Event authorization: specification.  An event and the state it is       *)
(* checked against are chosen, and the rule for the event's type answers.  *)
(***************************************************************************)
ValidMembershipChange ==
    /\ auth_in.rule = "member"
    /\ auth_out = "pending"
    /\ auth_out' = IF valid_membership_change(auth_in) THEN "allow" ELSE "deny"
    /\ UNCHANGED <<auth_in, auth_types, uiaVars, joinVars, handlerVars>>

CheckPowerLevels ==
    /\ auth_in.rule = "power_levels"
    /\ auth_out = "pending"
    /\ auth_out' = check_power_levels(auth_in)
    /\ UNCHANGED <<auth_in, auth_types, uiaVars, joinVars, handlerVars>>

AuthCheckCreate ==
    /\ auth_in.rule = "create"
    /\ auth_out = "pending"
    /\ auth_out' = auth_check_create(auth_in)
    /\ UNCHANGED <<auth_in, auth_types, uiaVars, joinVars, handlerVars>>

\* the UIA engine at rest
UiaAtRest ==
    /\ config = CHOOSE c \in UiaConfigs : c.open_registration /\ ~c.turnstile_site_key
                                            /\ ~c.recaptcha_site_key
    /\ first_run = FALSE
    /\ tokens = EmptyMap
    /\ userdevicesessionid_uiaainfo = EmptyMap
    /\ userdevicesessionid_uiaarequest = EmptyMap
    /\ next_session = 1
    /\ call = [p \in Procs |-> IdleCall]
    /\ executed = EmptyMap
    /\ token_accepts = EmptyMap
    /\ succeeded = EmptyMap

InitAuth ==
    /\ MemberInputs \/ PowerLevelInputs \/ CreateInputs
    /\ auth_out = "pending"
    /\ auth_types = <<>>
    /\ UiaAtRest
    /\ JoinAtRest
    /\ HandlersAtRest

NextAuth == ValidMembershipChange \/ CheckPowerLevels \/ AuthCheckCreate

SpecAuth == InitAuth /\ [][NextAuth]_vars

(***************************************************************************)
(* Event authorization: auth_check for the events that are not             *)
(* m.room.create (event_auth.rs 268-618).                                  *)
(***************************************************************************)
RoomId == "!room"
OtherRoomId == "!other"

PowerLevelsType == "m.room.power_levels"
MemberType == "m.room.member"
AliasesType == "m.room.aliases"
ThirdPartyInviteType == "m.room.third_party_invite"
RedactionType == "m.room.redaction"
NameType == "m.room.name"
MessageType == "m.room.message"

\* str::starts_with('@') of a state key of the model
StartsWithAt(k) == k \in {UserA, UserB, UserC}

get_send_level(e_type, state_key, power_lvl) ==
    IF IsSome(power_lvl) /\ power_lvl[1].ok
    THEN LET content == power_lvl[1].content
         IN  IF e_type \in DOMAIN content.events THEN content.events[e_type]
             ELSE IF IsSome(state_key) THEN content.state_default
             ELSE content.events_default
    ELSE IF IsSome(state_key) THEN 50 ELSE 0

can_send_event(event, ple, user_level) ==
    IF user_level < get_send_level(event.type, event.state_key, ple) THEN FALSE
    ELSE IF /\ IsSome(event.state_key) /\ StartsWithAt(event.state_key[1])
            /\ event.state_key # Some(event.sender)
    THEN FALSE
    ELSE TRUE

check_redaction(redaction_event, user_level, redact_level) ==
    IF user_level >= redact_level THEN TRUE
    ELSE redaction_event.event_id_server = redaction_event.redacts_server

\* the sender's member event is one of a joined user
SenderJoined_Mutant(membership_state) == membership_state # "ban"

SenderJoined(membership_state) == membership_state = "join"

\* lines 478-517: the power level of the sender
sender_power_level(v, create_event, power_levels_event, sender) ==
    LET from_levels ==
            IF IsSome(power_levels_event)
            THEN LET content == power_levels_event[1].content
                 IN  IF sender \in DOMAIN content.users THEN content.users[sender]
                     ELSE content.users_default
            ELSE LET creator == IF v.use_room_create_sender THEN create_event.sender = sender
                                ELSE create_event.creator = sender
                 IN  IF creator THEN 100 ELSE 0
    IN  IF /\ v.explicitly_privilege_room_creators
           /\ (sender = create_event.sender \/ sender \in create_event.additional_creators)
        THEN IntMax
        ELSE from_levels

\* lines 558-586: the creators handed to check_power_levels
creators_of(v, create_event) ==
    IF v.explicitly_privilege_room_creators
    THEN {create_event.sender} \cup create_event.additional_creators
    ELSE {}

\* lines 268-345: the checks every event passes before its type is looked at
auth_check_room(v, ev, st) ==
    IF ~st.create.content_ok THEN "error"
    ELSE IF IsSome(st.create.room_version)
                /\ ~RoomVersionIdDeserializes(st.create.room_version[1])
    THEN "deny"
    ELSE IF ev.room_id # st.create.room_id THEN "deny"
    ELSE IF v.room_ids_as_hashes /\ ev.claims_create_event THEN "deny"
    ELSE IF ~v.room_ids_as_hashes /\ ~ev.claims_create_event THEN "deny"
    ELSE IF IsSome(st.power_levels) /\ st.power_levels[1].room_id # st.create.room_id
    THEN "deny"
    ELSE IF /\ ~v.room_ids_as_hashes
            /\ ~st.create.federate
            /\ ServerOf(st.create.sender) # ServerOf(ev.sender)
    THEN "deny"
    ELSE "pass"

\* lines 364-430: an m.room.member event
auth_check_member(v, ev, st) ==
    IF ~IsSome(ev.state_key) THEN "deny"
    ELSE IF ~ev.content_ok THEN "error"
    ELSE IF ~IsSome(ev.membership) THEN "deny"
    ELSE IF ~StartsWithAt(ev.state_key[1]) THEN "error"
    ELSE IF valid_membership_change(
                MemberInput(<<v, st.create.additional_creators>>,
                            IF IsSome(st.power_levels) THEN Some(st.power_levels[1].content)
                            ELSE Nothing,
                            <<ev.sender, ev.state_key[1],
                              IF IsSome(st.sender_member) /\ IsSome(st.sender_member[1].membership)
                              THEN st.sender_member[1].membership[1]
                              ELSE None,
                              st.target_member>>,
                            ev.membership[1], st.join_rules, ev.prev_events,
                            <<None, "leave">>, Nothing, Nothing))
    THEN "allow"
    ELSE "deny"

\* lines 432-618: every other event
auth_check_other(v, ev, st) ==
    IF ~IsSome(st.sender_member) THEN "deny"
    ELSE IF st.sender_member[1].room_id # st.create.room_id THEN "deny"
    ELSE IF ~IsSome(st.sender_member[1].membership) THEN "error"
    ELSE IF ~SenderJoined(st.sender_member[1].membership[1]) THEN "deny"
    ELSE IF IsSome(st.power_levels) /\ ~st.power_levels[1].ok THEN "error"
    ELSE LET power == sender_power_level(v, st.create, st.power_levels, ev.sender)
         IN  IF ev.type = ThirdPartyInviteType
             THEN LET invite_level == IF IsSome(st.power_levels)
                                      THEN st.power_levels[1].content.invite
                                      ELSE 0
                  IN  IF power < invite_level THEN "deny" ELSE "allow"
             ELSE IF ~can_send_event(ev, st.power_levels, power) THEN "deny"
             ELSE IF /\ ev.type = PowerLevelsType
                     /\ \/ ~IsSome(ev.state_key)
                        \/ check_power_levels(
                               [room_version |-> v,
                                creators |-> creators_of(v, st.create),
                                sender |-> ev.sender,
                                user_level |-> power,
                                state_key |-> ev.state_key[1],
                                previous |-> IF IsSome(st.power_levels)
                                             THEN Some(st.power_levels[1].content)
                                             ELSE Nothing,
                                previous_ok |-> TRUE,
                                content |-> ev.content,
                                content_ok |-> ev.content_ok]) # "allow"
             THEN "deny"
             ELSE IF /\ v.extra_redaction_checks
                     /\ ev.type = RedactionType
                     /\ ~check_redaction(ev, power,
                                         IF IsSome(st.power_levels)
                                         THEN st.power_levels[1].content.redact
                                         ELSE 50)
             THEN "deny"
             ELSE "allow"

\* Ok(true) "allow", Ok(false) "deny", Err "error"
auth_check(i) ==
    LET v == i.room_version
        ev == i.event
        st == i.state
        checked == auth_check_room(v, ev, st)
    IN  IF checked # "pass" THEN checked
        ELSE IF v.special_case_aliases_auth /\ ev.type = AliasesType
        THEN IF ev.state_key # Some(ServerOf(ev.sender)) THEN "deny" ELSE "allow"
        ELSE IF ev.type = MemberType THEN auth_check_member(v, ev, st)
        ELSE auth_check_other(v, ev, st)

(***************************************************************************)
(* Event authorization: auth_types_for_event (event_auth.rs 63-137).       *)
(***************************************************************************)
CreateType == "m.room.create"
JoinRulesType == "m.room.join_rules"

\* if !auth_types.contains(&key) { auth_types.push(key) }
PushKey(auth_types_, key) ==
    IF Contains(auth_types_, key) THEN auth_types_ ELSE Append(auth_types_, key)

\* Ok(list) as [ok |-> TRUE, types |-> list]; Err as [ok |-> FALSE, types |-> <<>>]
auth_types_for_event(kind, sender, state_key, content, room_version) ==
    IF kind = CreateType THEN [ok |-> TRUE, types |-> <<>>]
    ELSE
    LET base == IF room_version.room_ids_as_hashes
                THEN << <<PowerLevelsType, "">>, <<MemberType, sender>> >>
                ELSE << <<PowerLevelsType, "">>, <<MemberType, sender>>, <<CreateType, "">> >>
    IN  IF kind # MemberType \/ ~IsSome(state_key) THEN [ok |-> TRUE, types |-> base]
        ELSE IF ~content.object THEN [ok |-> FALSE, types |-> <<>>]
        ELSE IF ~(IsSome(content.membership) /\ content.membership[1].ok)
        THEN [ok |-> TRUE, types |-> base]
        ELSE
        LET membership == content.membership[1].value
            ja == content.join_authorised_via_users_server
            tpi == content.third_party_invite
            with_rules ==
                IF membership \in {"join", "invite", "knock"}
                THEN LET rules == PushKey(base, <<JoinRulesType, "">>)
                     IN  IF IsSome(ja) /\ ja[1].ok
                         THEN PushKey(rules, <<MemberType, ja[1].value>>)
                         ELSE rules
                ELSE base
            with_target == PushKey(with_rules, <<MemberType, state_key[1]>>)
        IN  [ok |-> TRUE,
             types |-> IF membership = "invite" /\ IsSome(tpi) /\ tpi[1].ok
                       THEN PushKey(with_target, <<ThirdPartyInviteType, tpi[1].token>>)
                       ELSE with_target]

(***************************************************************************)
(* Event authorization: the events auth_check and auth_types_for_event     *)
(* are applied to.                                                         *)
(***************************************************************************)
\* the create event of the state: sent by @c:s
CreateEvent(additional_creators, federate, content_ok, room_version) ==
    [event_id |-> CreateEventId, sender |-> UserC, creator |-> UserC,
     additional_creators |-> additional_creators, federate |-> federate,
     content_ok |-> content_ok, room_version |-> room_version, room_id |-> RoomId]

\* the m.room.power_levels event of the state
PowerLevelsEvent(content, ok, room_id) ==
    Some([content |-> content, ok |-> ok, room_id |-> room_id])

\* the sender's m.room.member event of the state
SenderMember(membership, room_id) == Some([membership |-> membership, room_id |-> room_id])

EventState(create_event, power_levels, sender_member, target_member, join_rules) ==
    [create |-> create_event, power_levels |-> power_levels, sender_member |-> sender_member,
     target_member |-> target_member, join_rules |-> join_rules]

IncomingEvent(type, sender, state_key, room_id, claims_create_event, content, redacts) ==
    [type |-> type, sender |-> sender, state_key |-> state_key, room_id |-> room_id,
     claims_create_event |-> claims_create_event,
     content |-> content, content_ok |-> TRUE, membership |-> Nothing,
     prev_events |-> <<OtherEventId>>,
     event_id_server |-> Some(ServerOf(sender)), redacts_server |-> redacts]

EventInput(v, ev, st) == [rule |-> "event", room_version |-> v, event |-> ev, state |-> st]

EventRooms ==
    {<<v, {}, f>> : v \in {V1, V10, V11, V12}, f \in Booleans} \cup
    {<<V12, {UserA}, f>> : f \in Booleans}

EventSenders == {UserC, UserA, UserB}

SenderMembers ==
    {Nothing, SenderMember(Nothing, RoomId), SenderMember(Some("join"), OtherRoomId)} \cup
    {SenderMember(Some(m), RoomId) : m \in Memberships}

StatePowerLevels ==
    {Nothing, PowerLevelsEvent(DefaultPowerLevels, TRUE, RoomId),
     PowerLevelsEvent(PlModerated, TRUE, RoomId),
     PowerLevelsEvent(PlModerated, FALSE, RoomId)}

StateKeys == {Nothing, Some(""), Some("s"), Some(UserA)}

\* events that are neither m.room.member nor m.room.power_levels
OtherEventInputs ==
    \E r \in EventRooms, sender \in EventSenders, sm \in SenderMembers,
       pl \in StatePowerLevels, sk \in StateKeys,
       type \in {MessageType, NameType, AliasesType, ThirdPartyInviteType, RedactionType} :
        auth_in = EventInput(r[1],
                    IncomingEvent(type, sender, sk, RoomId, ~r[1].room_ids_as_hashes,
                                  DefaultPowerLevels, Some("s")),
                    EventState(CreateEvent(r[2], r[3], TRUE, Nothing), pl, sm, None, None))

\* the users of a new m.room.power_levels content
NewUsers == {EmptyMap, UserC :> 100, UserA :> 50, UserA :> 100, UserB :> 0}

PowerLevelsEventInputs ==
    \E r \in EventRooms, sender \in EventSenders,
       sm \in {Nothing, SenderMember(Some("join"), RoomId), SenderMember(Some("leave"), RoomId)},
       pl \in StatePowerLevels \ {PowerLevelsEvent(PlModerated, FALSE, RoomId)},
       sk \in {Nothing, Some(""), Some("s")}, users \in NewUsers :
        auth_in = EventInput(r[1],
                    IncomingEvent(PowerLevelsType, sender, sk, RoomId,
                                  ~r[1].room_ids_as_hashes,
                                  [DefaultPowerLevels EXCEPT !.users = users], Some("s")),
                    EventState(CreateEvent(r[2], r[3], TRUE, Nothing), pl, sm, None, None))

\* what the checks on the room look at: the create event's content, the room
\* the event and the power levels are in, the reference to the create event;
\* and the event a redaction redacts
RoomCheckInputs ==
    \E v \in {V1, V11, V12}, content_ok \in Booleans,
       room_version \in {Nothing, Some("supported"), Some("malformed")},
       room_id \in {RoomId, OtherRoomId}, claims \in Booleans,
       pl \in {Nothing, PowerLevelsEvent(DefaultPowerLevels, TRUE, RoomId),
               PowerLevelsEvent(DefaultPowerLevels, TRUE, OtherRoomId)},
       type \in {MessageType, RedactionType}, sender \in {UserA, UserB},
       redacts \in {Nothing, Some("s"), Some("t")} :
        auth_in = EventInput(v,
                    IncomingEvent(type, sender, Nothing, room_id, claims,
                                  DefaultPowerLevels, redacts),
                    EventState(CreateEvent({}, TRUE, content_ok, room_version), pl,
                               SenderMember(Some("join"), RoomId), None, None))

\* m.room.member events
MemberEventInputs ==
    \E r \in EventRooms, q \in MemberPairs, sk \in Booleans,
       membership \in {Nothing, Some("join"), Some("leave")},
       jr \in {None, "public"}, prev \in {<<CreateEventId>>, <<OtherEventId>>} :
        auth_in = EventInput(r[1],
                    [IncomingEvent(MemberType, q[1], IF sk THEN Some(q[2]) ELSE Nothing,
                                   RoomId, ~r[1].room_ids_as_hashes, DefaultPowerLevels,
                                   Nothing)
                        EXCEPT !.membership = membership, !.prev_events = prev],
                    EventState(CreateEvent(r[2], r[3], TRUE, Nothing), Nothing,
                               IF q[3] = None THEN Nothing
                               ELSE SenderMember(Some(q[3]), RoomId),
                               q[4], jr))

EventInputs ==
    OtherEventInputs \/ PowerLevelsEventInputs \/ RoomCheckInputs \/ MemberEventInputs

\* the fields auth_types_for_event reads in a member event's content: a
\* field is absent, does not deserialize, or has a value
RawField(ok, value) == Some([ok |-> ok, value |-> value])

RawMemberships ==
    {Nothing, RawField(FALSE, "leave"), RawField(TRUE, "custom")} \cup
    {RawField(TRUE, m) : m \in Memberships}

RawJoinAuthorised ==
    {Nothing, RawField(FALSE, UserA), RawField(TRUE, UserA), RawField(TRUE, UserC)}

RawThirdPartyInvites ==
    {Nothing, Some([ok |-> FALSE, token |-> "tok1"]), Some([ok |-> TRUE, token |-> "tok1"])}

AuthTypesInputs ==
    \E kind \in {CreateType, MemberType, MessageType}, sender \in {UserA, UserC},
       sk \in {Nothing, Some(UserA), Some(UserC)}, object \in Booleans,
       membership \in RawMemberships, ja \in RawJoinAuthorised,
       tpi \in RawThirdPartyInvites, v \in {V11, V12} :
        auth_in = [rule |-> "auth_types", kind |-> kind, sender |-> sender,
                   state_key |-> sk, room_version |-> v,
                   content |-> [object |-> object, membership |-> membership,
                                join_authorised_via_users_server |-> ja,
                                third_party_invite |-> tpi]]

(***************************************************************************)
(* Event authorization: specification of auth_check and of                 *)
(* auth_types_for_event.                                                   *)
(***************************************************************************)
AuthCheck ==
    /\ auth_in.rule = "event"
    /\ auth_out = "pending"
    /\ auth_out' = auth_check(auth_in)
    /\ UNCHANGED <<auth_in, auth_types, uiaVars, joinVars, handlerVars>>

AuthTypesForEvent ==
    /\ auth_in.rule = "auth_types"
    /\ auth_out = "pending"
    /\ LET r == auth_types_for_event(auth_in.kind, auth_in.sender, auth_in.state_key,
                                     auth_in.content, auth_in.room_version)
       IN  /\ auth_out' = IF r.ok THEN "ok" ELSE "error"
           /\ auth_types' = r.types
    /\ UNCHANGED <<auth_in, uiaVars, joinVars, handlerVars>>

InitEvent ==
    /\ EventInputs \/ AuthTypesInputs
    /\ auth_out = "pending"
    /\ auth_types = <<>>
    /\ UiaAtRest
    /\ JoinAtRest
    /\ HandlersAtRest

NextEvent == AuthCheck \/ AuthTypesForEvent

SpecEvent == InitEvent /\ [][NextEvent]_vars

(***************************************************************************)
(* Event authorization: properties.                                        *)
(***************************************************************************)
\* a join event whose target is banned in the state has been checked
BannedJoinChecked ==
    /\ auth_in.rule = "member"
    /\ auth_out # "pending"
    /\ auth_in.target_membership = "join"
    /\ auth_in.target_user_membership_event = "ban"

\* the room's creators: the sender of the create event, the legacy `creator`
\* field, or the explicit list, as the version has it; none counts once the
\* room has power levels, except in the versions with the explicit list
CreatorOfRoom(i, user) ==
    LET v == i.room_version
    IN  IF v.explicitly_privilege_room_creators
        THEN user \in {i.create_room.sender} \cup i.create_room.additional_creators
        ELSE /\ ~IsSome(i.power_levels_event)
             /\ user = (IF v.use_room_create_sender THEN i.create_room.sender
                        ELSE i.create_room.creator)

\* the creator's first join: the only prev_event is the create event, and the
\* sender and the target are creators
CreatorBootstrap(i) ==
    /\ i.prev_events = <<i.create_room.event_id>>
    /\ CreatorOfRoom(i, i.sender)
    /\ CreatorOfRoom(i, i.target_user)

LevelChangedAboveSender(i) ==
    LET old == i.previous[1]
        new == i.content
        above(a, b) == a # b /\ (OptGt(a, Some(i.user_level)) \/ OptGt(b, Some(i.user_level)))
    IN  \/ \E u \in (DOMAIN old.users) \cup (DOMAIN new.users) :
                above(Get(old.users, u), Get(new.users, u))
        \/ \E e \in (DOMAIN old.events) \cup (DOMAIN new.events) :
                above(Get(old.events, e), Get(new.events, e))
        \/ \E n \in 1..Len(levels) :
                above(Some(old[levels[n]]), Some(new[levels[n]]))

\* C3 as stated: with a previous power-levels event, a new one in which a
\* per-user level, a per-event-type level or a top-level scalar level is
\* changed to or from a value above the sender's level is rejected, whatever
\* the old and new values are (also the field's default).
C3_ChangeAboveSenderRejected ==
    (/\ auth_in.rule = "power_levels"
     /\ auth_out # "pending"
     /\ IsSome(auth_in.previous)
     /\ auth_in.previous_ok /\ auth_in.content_ok
     /\ LevelChangedAboveSender(auth_in))
        => auth_out # "allow"

\* check_power_levels rejected the event in its last part, the loop over
\* the top-level scalar levels: no per-user level, per-event-type level or
\* notification level refused it
RejectedForScalarLevel(i) ==
    LET old_state == i.previous[1]
        new_state == i.content
    IN  /\ i.rule = "power_levels"
        /\ auth_out = "deny"
        /\ i.state_key = "" /\ i.content_ok /\ IsSome(i.previous) /\ i.previous_ok
        \* the sender's level is the one the room's power levels give them
        /\ i.user_level = (IF i.sender \in DOMAIN old_state.users
                           THEN old_state.users[i.sender]
                           ELSE old_state.users_default)
        /\ \A user \in (DOMAIN old_state.users) \cup (DOMAIN new_state.users) :
                ~UserRefused(user, old_state, new_state, i.sender, i.user_level, i.creators)
        /\ \A ev_type \in (DOMAIN old_state.events) \cup (DOMAIN new_state.events) :
                ~LevelRefused(Get(old_state.events, ev_type),
                              Get(new_state.events, ev_type), i.user_level)
        /\ ~(/\ i.room_version.limit_notifications_power_levels
             /\ old_state.notifications_room # new_state.notifications_room
             /\ \/ old_state.notifications_room > i.user_level
                \/ new_state.notifications_room > i.user_level)

\* C40: check_power_levels rejects a power-levels event on account of a
\* top-level scalar level (users_default, events_default, state_default, ban,
\* redact, kick, invite) only if that level differs between the old and the
\* new content: a level left unchanged never causes rejection, also when it
\* is above the sender's level.
C40_UnchangedScalarNeverRejects ==
    RejectedForScalarLevel(auth_in)
        => \E n \in 1..Len(levels) :
                /\ auth_in.previous[1][levels[n]] # auth_in.content[levels[n]]
                /\ \/ auth_in.previous[1][levels[n]] > auth_in.user_level
                   \/ auth_in.content[levels[n]] > auth_in.user_level

\* a join event has been checked
JoinChecked ==
    /\ auth_in.rule = "member"
    /\ auth_in.target_membership = "join"
    /\ auth_out # "pending"

\* the room-creator set: the sender of the create event and, in the versions
\* that privilege creators explicitly, the additional_creators of its content
RoomCreators(i) ==
    {i.create_room.sender} \cup
        (IF i.room_version.explicitly_privilege_room_creators
         THEN i.create_room.additional_creators ELSE {})

\* the first join of a creator, as the rule is stated: the only prev_event is
\* the create event, the sender is the target, and is in the room-creator set
FirstJoinOfCreator(i) ==
    /\ i.prev_events = <<i.create_room.event_id>>
    /\ i.sender = i.target_user
    /\ i.sender \in RoomCreators(i)

\* C12 as stated: in every room version, a join that the membership check
\* allows has its sender equal to its state_key, also when it is allowed as
\* the creator's first join.
C12_AllowedJoinIsOfSelf ==
    (JoinChecked /\ auth_out = "allow") => auth_in.sender = auth_in.target_user

\* C13 as stated: in every room version and authorizing context, a join whose
\* only prev_event is the create event, with sender = state_key and that user
\* in the room-creator set, is allowed whatever the join rule is.
C13_FirstJoinOfCreatorAllowed ==
    (JoinChecked /\ FirstJoinOfCreator(auth_in)) => auth_out = "allow"

\* a join of oneself that is not the creator's first join, by a user who is
\* not banned
PlainJoinOfSelf ==
    /\ JoinChecked
    /\ auth_in.sender = auth_in.target_user
    /\ ~FirstJoinOfCreator(auth_in)
    /\ auth_in.target_user_membership_event # "ban"

\* C14: under the join rule `invite`, or with no join-rules event, a join of
\* oneself that is not the creator's first join and whose target is not banned
\* is allowed iff the target's current membership is join or invite; a user
\* with no member event is denied.
C14_InviteRuleNeedsInvite ==
    (PlainJoinOfSelf /\ auth_in.join_rules_event \in {"invite", None}) =>
        (auth_out = "allow"
            <=> auth_in.target_user_membership_event \in {"join", "invite"})

\* C14, its case: a user with no member event joins a room whose rule is
\* invite, and is denied.
C14_Witness ==
    /\ PlainJoinOfSelf
    /\ auth_in.join_rules_event = "invite"
    /\ auth_in.target_user_membership_event = None
    /\ auth_in.sender = UserA
    /\ auth_out = "deny"

\* the level of a user in the room's power levels, all levels being 0 while
\* the room has no power-levels event
PowerOf(i, user) ==
    IF ~IsSome(i.power_levels_event) THEN 0
    ELSE IF user \in DOMAIN i.power_levels_event[1].users
    THEN i.power_levels_event[1].users[user]
    ELSE i.power_levels_event[1].users_default

InviteLevelOf(i) ==
    IF IsSome(i.power_levels_event) THEN i.power_levels_event[1].invite ELSE 0

\* the content names an authorising user, and that user is joined
AuthorisingUserJoined(i) ==
    i.user_for_join_auth # None /\ i.user_for_join_auth_membership = "join"

RestrictedJoinOfSelf == PlainJoinOfSelf /\ auth_in.join_rules_event = "restricted"

LevelsOf(i) ==
    IF IsSome(i.power_levels_event) THEN i.power_levels_event[1] ELSE DefaultPowerLevels

\* the effective power of a user: above every level for a creator of a
\* version that privileges creators, else the user's level in `users`, else
\* users_default
EffectivePower(i, user) ==
    IF i.room_version.explicitly_privilege_room_creators /\ user \in RoomCreators(i)
    THEN IntMax
    ELSE PowerOf(i, user)

MemberChecked(membership) ==
    /\ auth_in.rule = "member"
    /\ auth_in.target_membership = membership
    /\ auth_out # "pending"

\* C16 as stated: a ban is allowed iff the sender is joined and either is a
\* room creator, or has power >= the ban level and > the target's effective
\* power (the target's level in `users`, otherwise users_default).
C16_BanRule ==
    MemberChecked("ban") =>
        (auth_out = "allow" <=>
            /\ auth_in.sender_membership_event = "join"
            /\ \/ CreatorOfRoom(auth_in, auth_in.sender)
               \/ /\ EffectivePower(auth_in, auth_in.sender) >= LevelsOf(auth_in).ban
                  /\ EffectivePower(auth_in, auth_in.sender)
                        > EffectivePower(auth_in, auth_in.target_user))

\* C17 as stated: a leave with sender # target is allowed only if the sender
\* is joined and, the target being banned, has power >= the ban level or is a
\* creator, and, the target being neither banned nor gone, has power >= the
\* kick level and > the target's effective power, or is a creator.
C17_KickUnbanRule ==
    (MemberChecked("leave") /\ auth_in.sender # auth_in.target_user /\ auth_out = "allow") =>
        LET power == EffectivePower(auth_in, auth_in.sender)
            current == IF auth_in.target_user_membership_event = None THEN "leave"
                       ELSE auth_in.target_user_membership_event
        IN  /\ auth_in.sender_membership_event = "join"
            /\ current = "ban" =>
                    \/ CreatorOfRoom(auth_in, auth_in.sender)
                    \/ power >= LevelsOf(auth_in).ban
            /\ current \notin {"ban", "leave"} =>
                    \/ CreatorOfRoom(auth_in, auth_in.sender)
                    \/ /\ power >= LevelsOf(auth_in).kick
                       /\ power > EffectivePower(auth_in, auth_in.target_user)

\* C18: a knock is allowed iff the room version allows knocking, the join
\* rule is `knock`, or `knock_restricted` in a version that has it, the sender
\* is the state_key, and the target's current membership is none of ban,
\* invite and join.
C18_KnockRule ==
    MemberChecked("knock") =>
        (auth_out = "allow" <=>
            /\ auth_in.room_version.allow_knocking
            /\ \/ auth_in.join_rules_event = "knock"
               \/ /\ auth_in.join_rules_event = "knock_restricted"
                  /\ auth_in.room_version.knock_restricted_join_rule
            /\ auth_in.sender = auth_in.target_user
            /\ auth_in.target_user_membership_event \notin {"ban", "invite", "join"})

\* C18, its case: a user without a member event knocks on a room whose rule is
\* knock, in a version that allows it.
C18_Witness ==
    /\ MemberChecked("knock")
    /\ auth_in.room_version.allow_knocking
    /\ auth_in.join_rules_event = "knock"
    /\ auth_in.sender = auth_in.target_user
    /\ auth_in.target_user_membership_event = None
    /\ auth_out = "allow"

\* C19 as stated: an invite whose content carries a third-party invite (one
\* that deserializes) is allowed only if the target is not banned and the state has an
\* m.room.third_party_invite event whose state_key is the signed token, whose
\* sender is the invite's sender, and one of whose public keys is the key of
\* the invite's signature.
C19_ThirdPartyInviteVerified ==
    (/\ MemberChecked("invite")
     /\ IsSome(auth_in.third_party_invite)
     /\ auth_in.third_party_invite[1].ok
     /\ auth_out = "allow") =>
        LET tp == auth_in.third_party_invite[1]
            cur == auth_in.current_third_party_invite
        IN  /\ auth_in.target_user_membership_event # "ban"
            /\ IsSome(cur)
            /\ cur[1].state_key = tp.token
            /\ cur[1].sender = auth_in.sender
            /\ tp.signed_by \in cur[1].public_keys \cup {cur[1].public_key}

\* C20 as stated: auth_check allows an m.room.create event iff it has no
\* prev_events; the server part of a textual room id it carries is the
\* sender's; its content.room_version, if present, is a supported version;
\* content.creator is present unless the version takes the sender as creator
\* or has explicit creators; and in a hash-addressed version it carries no
\* room id.
C20_CreateRule ==
    (auth_in.rule = "create" /\ auth_out # "pending") =>
        (auth_out = "allow" <=>
            /\ auth_in.prev_events = <<>>
            /\ IsSome(auth_in.room_id) =>
                    auth_in.room_id[1] = Some(ServerOf(auth_in.sender))
            /\ auth_in.content_ok
            /\ auth_in.content.room_version \in {Nothing, Some("supported")}
            /\ \/ auth_in.content.creator
               \/ auth_in.room_version.use_room_create_sender
               \/ auth_in.room_version.explicitly_privilege_room_creators
            /\ auth_in.room_version.room_ids_as_hashes => ~IsSome(auth_in.room_id))

(***************************************************************************)
(* Event authorization: properties of auth_check and of                    *)
(* auth_types_for_event.                                                   *)
(***************************************************************************)
\* auth_check has answered for an event of the given type
EventChecked(type) ==
    /\ auth_in.rule = "event"
    /\ auth_out # "pending"
    /\ auth_in.event.type = type

\* C21: in the room versions that explicitly privilege creators, an
\* m.room.power_levels event whose content.users has a room creator (the
\* sender of the create event or one of additional_creators) is never allowed
\* by auth_check, with or without a previous power-levels event in the room.
C21_CreatorInUsersRejected ==
    ( /\ EventChecked(PowerLevelsType)
      /\ auth_in.room_version.explicitly_privilege_room_creators
      /\ \E u \in DOMAIN auth_in.event.content.users :
            \/ u = auth_in.state.create.sender
            \/ u \in auth_in.state.create.additional_creators )
    => auth_out # "allow"

\* C22: in every room version, when the create event has m.federate = false,
\* an event whose sender is on another server than the sender of the create
\* event is never allowed by auth_check.
C22_UnfederatedRoomDeniesOtherServers ==
    ( /\ auth_in.rule = "event"
      /\ auth_out # "pending"
      /\ ~auth_in.state.create.federate
      /\ ServerOf(auth_in.event.sender) # ServerOf(auth_in.state.create.sender) )
    => auth_out # "allow"

\* the event went through the legacy alias shortcut
AliasShortcut ==
    auth_in.room_version.special_case_aliases_auth /\ auth_in.event.type = AliasesType

\* the membership of the sender's member event is the given one
SenderMembershipIs(m) ==
    /\ IsSome(auth_in.state.sender_member)
    /\ auth_in.state.sender_member[1].membership = Some(m)

\* C23: an event that is neither m.room.create nor m.room.member, and did not
\* go through the legacy alias shortcut, is allowed only if the sender's
\* member event has membership join; when the sender has no member event, or
\* one with another membership, the event is denied (the check ends in an
\* error only when the create event's content does not parse).
C23_SenderJoined ==
    ( /\ auth_in.rule = "event"
      /\ auth_out # "pending"
      /\ auth_in.event.type # MemberType
      /\ ~AliasShortcut )
    => /\ auth_out = "allow" => SenderMembershipIs("join")
       /\ ( \/ ~IsSome(auth_in.state.sender_member)
            \/ \E m \in Memberships \ {"join"} : SenderMembershipIs(m) )
          => \/ auth_out = "deny"
             \/ auth_out = "error" /\ ~auth_in.state.create.content_ok

\* a message in a room whose checks pass, from a sender who has left, is
\* denied
C23_Witness ==
    /\ EventChecked(MessageType)
    /\ auth_check_room(auth_in.room_version, auth_in.event, auth_in.state) = "pass"
    /\ SenderMembershipIs("leave")
    /\ ~IsSome(auth_in.state.power_levels)
    /\ auth_out = "deny"

\* the elements of a list, each at its first occurrence
FirstOccurrences(s) ==
    LET F[n \in 0..Len(s)] ==
            IF n = 0 THEN <<>>
            ELSE IF \E m \in 1..(n - 1) : s[m] = s[n] THEN F[n - 1]
            ELSE Append(F[n - 1], s[n])
    IN  F[Len(s)]

\* the list the selector rules give for the event auth_types_for_event was
\* called with
SelectorRules ==
    LET c == auth_in.content
        base == << <<PowerLevelsType, "">>, <<MemberType, auth_in.sender>> >>
                \o (IF auth_in.room_version.room_ids_as_hashes THEN <<>>
                    ELSE << <<CreateType, "">> >>)
        membership == c.membership[1].value
        rules == IF membership \in {"join", "invite", "knock"}
                 THEN << <<JoinRulesType, "">> >> ELSE <<>>
        authorised == IF /\ IsSome(c.join_authorised_via_users_server)
                         /\ c.join_authorised_via_users_server[1].ok
                      THEN << <<MemberType, c.join_authorised_via_users_server[1].value>> >>
                      ELSE <<>>
        target == << <<MemberType, auth_in.state_key[1]>> >>
        invite == IF /\ membership = "invite"
                     /\ IsSome(c.third_party_invite) /\ c.third_party_invite[1].ok
                  THEN << <<ThirdPartyInviteType, c.third_party_invite[1].token>> >>
                  ELSE <<>>
    IN  IF auth_in.kind = CreateType THEN <<>>
        ELSE IF auth_in.kind # MemberType THEN base
        ELSE IF ~(IsSome(c.membership) /\ c.membership[1].ok) THEN base
        ELSE FirstOccurrences(base \o rules \o authorised \o target \o invite)

\* C24: auth_types_for_event returns the list of the selector rules: nothing
\* for m.room.create; else power_levels and member(sender), and create in the
\* versions that are not hash-addressed; and for an m.room.member event with
\* a valid membership: join_rules for join, invite and knock, member(U) for a
\* content with join_authorised_via_users_server = U whatever the membership,
\* member(state_key), and third_party_invite(T) for an invite with token T;
\* no pair twice, in the order of first occurrence.
C24_AuthTypesFollowSelectorRules ==
    ( /\ auth_in.rule = "auth_types"
      /\ auth_out = "ok"
      /\ auth_in.kind = MemberType => IsSome(auth_in.state_key) )
    => auth_types = SelectorRules

(***************************************************************************)
(* Join coordinator (api/client/membership/join.rs) and the federation     *)
(* send_join handler (api/server/send_join.rs): types.                     *)
(***************************************************************************)
MaxServers == 3       \* length of the candidate list

Ours == "ours"
ServerNames == {Ours, "peer1", "peer2", "peer3"}

\* the candidate lists: the alias path appends further servers to the resolved
\* ones without removing repetitions, so a name may occur twice
ServerLists == UNION {[1..n -> ServerNames] : n \in 0..MaxServers}

server_is_ours(server) == server = Ours

\* what a peer answers to make_join: a response whose event stub passes
\* validate_remote_member_event_stub, one whose stub does not, one whose event
\* is not a JSON object, or an error of some kind
ErrorKinds == {"UnableToAuthorizeJoin", "UnableToGrantJoin", "NotFound", "Unknown",
               "IncompatibleRoomVersion", "Forbidden"}
MakeJoinResponses == {"ok_valid", "ok_invalid_stub", "ok_malformed"} \cup ErrorKinds

\* a loop that goes on after IncompatibleRoomVersion
HardErrors_Mutant == {"Forbidden"}

\* the error kinds on which make_join_request returns the error
HardErrors == {"IncompatibleRoomVersion", "Forbidden"}

\* what the peer answers to send_join: an error, or room state that the auth
\* check accepts, that it rejects, that has no create event, or a signed join
\* event with another event id
SendJoinResponses == {"err", "accepted", "rejected", "auth_error", "no_create",
                      "bad_create", "wrong_event_id"}

\* the user who joins, a user of this server
JoiningUser == "@u:ours"

\* the event stub of a make_join response, in the fields that are validated:
\* each is absent, or has a value
Stub(type, sender, state_key, room_id, membership) ==
    [type |-> type, sender |-> sender, state_key |-> state_key, room_id |-> room_id,
     membership |-> membership]

ValidStub ==
    Stub(Some(MemberType), Some(JoiningUser), Some(JoiningUser), Some(RoomId), Some("join"))

\* the valid stub, and the stubs with one field absent or with another value
Stubs ==
    {ValidStub} \cup
    {[ValidStub EXCEPT ![f] = Nothing] :
        f \in {"type", "sender", "state_key", "room_id", "membership"}} \cup
    {[ValidStub EXCEPT !.type = Some(MessageType)],
     [ValidStub EXCEPT !.sender = Some(UserB)],
     [ValidStub EXCEPT !.state_key = Some(UserB)],
     [ValidStub EXCEPT !.room_id = Some(OtherRoomId)],
     [ValidStub EXCEPT !.membership = Some("leave")]}

\* a validation that does not look at the sender
validate_remote_member_event_stub_Mutant(membership, user_id, room_id, event_stub) ==
    /\ event_stub.type = Some(MemberType)
    /\ event_stub.state_key = Some(user_id)
    /\ event_stub.room_id = Some(room_id)
    /\ event_stub.membership = Some(membership)

\* membership/mod.rs 169-239: Ok(()) as TRUE, Err as FALSE
validate_remote_member_event_stub(membership, user_id, room_id, event_stub) ==
    IF event_stub.type # Some(MemberType) THEN FALSE
    ELSE IF event_stub.sender # Some(user_id) THEN FALSE
    ELSE IF event_stub.state_key # Some(user_id) THEN FALSE
    ELSE IF event_stub.room_id # Some(room_id) THEN FALSE
    ELSE IF event_stub.membership # Some(membership) THEN FALSE
    ELSE TRUE

\* the answer to make_join that carries the stub, as the loop treats it
StubResponse(stub) ==
    IF validate_remote_member_event_stub("join", JoiningUser, RoomId, stub)
    THEN "ok_valid" ELSE "ok_invalid_stub"

\* an event of the state or of the auth chain of a send_join response: sound,
\* without valid signatures, or too large
EventFlaws == {"good", "unsigned", "oversize"}

ResponseEvent(id, flaw) == [id |-> id, flaw |-> flaw]

\* server_keys.validate_and_add_event_id_no_fetch: Ok(..) as TRUE
validate_and_add_event_id_no_fetch(pdu) == pdu.flaw # "unsigned"

\* pdu_fits: the event is within the size bound
pdu_fits(pdu) == pdu.flaw # "oversize"

\* room_state.state and room_state.auth_chain of the response the join holds
resp_state(j) ==
    {ResponseEvent("$state", j.state_flaw)} \cup
    (CASE j.response = "no_create" -> {}
       [] j.response = "bad_create" -> {ResponseEvent(CreateEventId, "unsigned")}
       [] OTHER -> {ResponseEvent(CreateEventId, "good")})

resp_auth(j) == {ResponseEvent("$auth", j.auth_flaw)}

Contact(req, server, idx, response) ==
    [req |-> req, server |-> server, idx |-> idx, response |-> response]

InitialRooms ==
    {[EmptyRoom EXCEPT !.server_in_room = TRUE, !.membership = m, !.shortstatehash = 1,
                       !.state_source = "local"] : m \in {"leave", "invite", "ban", "join"}}
    \cup {[EmptyRoom EXCEPT !.membership = m] : m \in {"leave", "ban"}}

(***************************************************************************)
(* The client join path.                                                   *)
(***************************************************************************)
\* a lock that does not wait for the holder
CanLockState_Mutant == TRUE

\* services.rooms.state.mutex.lock(room_id).await
CanLockState == state_mutex = "free"

\* the helper returns: the task ends and the state lock guard is dropped
JoinReturn(result) ==
    /\ join' = [join EXCEPT !.pc = "done", !.result = result]
    /\ state_mutex' = "free"

\* join_room_by_id_helper, line 266
JoinLock ==
    /\ join.pc = "idle"
    /\ CanLockState
    /\ state_mutex' = "client"
    /\ join' = [join EXCEPT !.pc = "checks"]
    /\ UNCHANGED <<servers, room, mutex_federation, fed, contacted, uiaVars, authVars, handlerVars>>

\* join_room_by_id_helper, lines 267-342: the checks before the join proper
JoinChecks ==
    /\ join.pc = "checks"
    /\ \E guest_refused \in Booleans, antispam_refused \in Booleans :
        IF guest_refused THEN JoinReturn("Forbidden")
        ELSE IF room.membership = "join" THEN JoinReturn("already_joined")
        ELSE IF antispam_refused THEN JoinReturn("Forbidden")
        ELSE IF room.server_in_room /\ room.membership = "ban" THEN JoinReturn("Forbidden")
        ELSE IF ~room.server_in_room /\ servers = <<>> THEN JoinReturn("NotFound")
        ELSE /\ join' = [join EXCEPT !.pc = IF room.server_in_room THEN "local"
                                            ELSE "make_join",
                                     !.server_in_room = room.server_in_room]
             /\ UNCHANGED state_mutex
    /\ UNCHANGED <<servers, room, mutex_federation, fed, contacted, uiaVars, authVars, handlerVars>>

\* join_room_by_id_helper_local: build_and_append_pdu appends the join event,
\* or fails and the join goes on over federation when there is a peer to ask
JoinLocalAppend ==
    /\ join.pc = "local"
    /\ \E appended \in Booleans :
        IF appended
        THEN /\ room' = [room EXCEPT !.timeline = Append(@, "join_local")]
             /\ join' = [join EXCEPT !.pc = "local_appended"]
             /\ UNCHANGED state_mutex
        ELSE /\ UNCHANGED room
             /\ IF servers = <<>> \/ (Len(servers) = 1 /\ server_is_ours(servers[1]))
                THEN /\ join' = [join EXCEPT !.pc = "done", !.result = "local_error",
                                             !.local_error = TRUE]
                     /\ state_mutex' = "free"
                ELSE /\ join' = [join EXCEPT !.pc = "make_join", !.local_error = TRUE]
                     /\ UNCHANGED state_mutex
    /\ UNCHANGED <<servers, mutex_federation, fed, contacted, uiaVars, authVars, handlerVars>>

\* build_and_append_pdu: the state with the join event becomes the room's
JoinLocalInstall ==
    /\ join.pc = "local_appended"
    /\ room' = [room EXCEPT !.shortstatehash = @ + 1, !.membership = "join"]
    /\ JoinReturn("joined")
    /\ UNCHANGED <<servers, mutex_federation, fed, contacted, uiaVars, authVars, handlerVars>>

\* make_join_request: one turn of the loop over the candidates
make_join_request_skip ==
    /\ join.pc = "make_join"
    /\ join.idx <= Len(servers)
    /\ server_is_ours(servers[join.idx])
    /\ join' = [join EXCEPT !.idx = @ + 1]
    /\ UNCHANGED <<servers, room, state_mutex, mutex_federation, fed, contacted,
                   uiaVars, authVars, handlerVars>>

make_join_request_ask(response) ==
    /\ join.pc = "make_join"
    /\ join.idx <= Len(servers)
    /\ ~server_is_ours(servers[join.idx])
    /\ contacted' = Append(contacted,
                           Contact("make_join", servers[join.idx], join.idx, response))
    /\ CASE response \in {"ok_valid", "ok_invalid_stub"} ->
                \E stub \in Stubs :
                    /\ StubResponse(stub) = response
                    /\ IF validate_remote_member_event_stub("join", JoiningUser, RoomId, stub)
                       THEN join' = [join EXCEPT !.pc = "send_join",
                                                 !.remote_server = servers[join.idx],
                                                 !.stub = Some(stub)]
                       ELSE join' = [join EXCEPT !.idx = @ + 1, !.stub = Some(stub)]
                    /\ UNCHANGED state_mutex
         [] response = "ok_malformed" ->
                /\ join' = [join EXCEPT !.pc = "done", !.result = "BadJson",
                                        !.stub = Nothing]
                /\ state_mutex' = "free"
         [] response \in HardErrors ->
                /\ join' = [join EXCEPT !.pc = "done", !.result = response,
                                        !.stub = Nothing]
                /\ state_mutex' = "free"
         [] OTHER ->
                /\ join' = [join EXCEPT !.idx = @ + 1, !.stub = Nothing]
                /\ UNCHANGED state_mutex
    /\ UNCHANGED <<servers, room, mutex_federation, fed, uiaVars, authVars, handlerVars>>

\* make_join_request: the loop is over
make_join_request_exhausted ==
    /\ join.pc = "make_join"
    /\ join.idx > Len(servers)
    /\ JoinReturn("No server available")
    /\ UNCHANGED <<servers, room, mutex_federation, fed, contacted, uiaVars, authVars, handlerVars>>

\* send_join sent to another candidate than the one that answered make_join
SendJoinTarget_Mutant(j) == "peer3"

\* the peer send_join is sent to
SendJoinTarget(j) == j.remote_server

\* join_room_by_id_helper_remote, lines 383-466: the room version is checked,
\* the stub is completed and signed, and send_join is sent
SendJoin ==
    /\ join.pc = "send_join"
    /\ \E prepared \in Booleans, response \in SendJoinResponses,
          state_flaw \in EventFlaws, auth_flaw \in EventFlaws :
        LET signed == Some([join.stub[1] EXCEPT !.membership = Some("join")])
        IN  IF ~prepared
            THEN JoinReturn("BadServerResponse") /\ UNCHANGED contacted
            ELSE /\ contacted' = Append(contacted,
                                        Contact("send_join", SendJoinTarget(join), join.idx,
                                                response))
                 /\ IF response = "err"
                    THEN /\ join' = [join EXCEPT !.pc = "done", !.result = "send_join_error",
                                                 !.signed = signed]
                         /\ state_mutex' = "free"
                    ELSE /\ join' = [join EXCEPT !.pc = "validate", !.response = response,
                                                 !.signed = signed,
                                                 !.state_flaw = state_flaw,
                                                 !.auth_flaw = auth_flaw]
                         /\ UNCHANGED state_mutex
    /\ UNCHANGED <<servers, room, mutex_federation, fed, uiaVars, authVars, handlerVars>>

\* lines 562-606: the events of room_state.state that are kept
kept_state(j) ==
    {pdu \in resp_state(j) : validate_and_add_event_id_no_fetch(pdu) /\ pdu_fits(pdu)}

\* lines 610-627: the events of room_state.auth_chain that are kept
kept_auth_chain(j) == {pdu \in resp_auth(j) : validate_and_add_event_id_no_fetch(pdu)}

\* lines 636-646: the answer of auth_check for the join event against the
\* returned state: Ok(true) "allow", Ok(false) "deny", Err "error"
send_join_auth_check(j) ==
    CASE j.response = "rejected" -> "deny"
      [] j.response = "auth_error" -> "error"
      [] OTHER -> "allow"

\* an error of the auth check taken for its consent
AuthCheckPassed_Mutant(answer) == answer # "deny"

\* lines 646-650: `.map_err(Forbidden)?` and `if !auth_check { return Err }`
AuthCheckPassed(answer) == answer = "allow"

\* the join event, parsed_join_pdu
JoinPdu == ResponseEvent("$join", "good")

\* the steps of the integration in another order: the event is appended to
\* the timeline before its state is stored
IntegrationStepAfter_Mutant(step) ==
    CASE step = "force_state" -> "append_pdu"
      [] step = "append_pdu" -> "append_to_state"
      [] step = "append_to_state" -> "set_room_state"
      [] OTHER -> "done"

\* lines 653-719: the statements of the integration in the order of the code
IntegrationStepAfter(step) ==
    CASE step = "force_state" -> "append_to_state"
      [] step = "append_to_state" -> "append_pdu"
      [] step = "append_pdu" -> "set_room_state"
      [] OTHER -> "done"

\* lines 470-651: the signed event, the returned state and auth chain, whose
\* kept events become outliers, and the auth check of the join event against
\* the returned state
ValidateSendJoin ==
    /\ join.pc = "validate"
    /\ IF join.response = "wrong_event_id"
       THEN JoinReturn("BadJson") /\ UNCHANGED room
       ELSE /\ room' = [room EXCEPT !.outliers = @ \cup kept_state(join)
                                                   \cup kept_auth_chain(join)]
            /\ IF ~\E pdu \in kept_state(join) : pdu.id = CreateEventId
               THEN JoinReturn("panic")
               ELSE IF ~AuthCheckPassed(send_join_auth_check(join))
               THEN JoinReturn("Forbidden")
               ELSE /\ join' = [join EXCEPT !.pc = "force_state",
                                            !.state = kept_state(join)]
                    /\ UNCHANGED state_mutex
    /\ UNCHANGED <<servers, mutex_federation, fed, contacted, uiaVars, authVars, handlerVars>>

\* lines 653-676: save_state, force_state
ForceState ==
    /\ join.pc = "force_state"
    /\ room' = [room EXCEPT !.shortstatehash = @ + 1, !.state_source = join.remote_server,
                            !.state_events = join.state,
                            !.saved_states = @ \cup {join.state}]
    /\ join' = [join EXCEPT !.pc = IntegrationStepAfter("force_state")]
    /\ UNCHANGED <<servers, state_mutex, mutex_federation, fed, contacted, uiaVars, authVars, handlerVars>>

\* lines 685-689: append_to_state stores the state after the join
AppendToState ==
    /\ join.pc = "append_to_state"
    /\ room' = [room EXCEPT !.saved_states = @ \cup {join.state \cup {JoinPdu}}]
    /\ join' = [join EXCEPT !.pc = IntegrationStepAfter("append_to_state")]
    /\ UNCHANGED <<servers, state_mutex, mutex_federation, fed, contacted, uiaVars, authVars, handlerVars>>

\* lines 691-704: append_pdu
AppendPdu ==
    /\ join.pc = "append_pdu"
    /\ room' = [room EXCEPT !.timeline = Append(@, "join_remote")]
    /\ join' = [join EXCEPT !.pc = IntegrationStepAfter("append_pdu")]
    /\ UNCHANGED <<servers, state_mutex, mutex_federation, fed, contacted, uiaVars, authVars, handlerVars>>

\* lines 706-719: set_room_state, and the helper returns Ok
SetRoomState ==
    /\ join.pc = "set_room_state"
    /\ room' = [room EXCEPT !.shortstatehash = @ + 1, !.membership = "join",
                            !.server_in_room = TRUE,
                            !.state_events = join.state \cup {JoinPdu}]
    /\ JoinReturn("joined")
    /\ UNCHANGED <<servers, mutex_federation, fed, contacted, uiaVars, authVars, handlerVars>>

JoinNext ==
    \/ JoinLock
    \/ JoinChecks
    \/ JoinLocalAppend
    \/ JoinLocalInstall
    \/ make_join_request_skip
    \/ \E response \in MakeJoinResponses : make_join_request_ask(response)
    \/ make_join_request_exhausted
    \/ SendJoin
    \/ ValidateSendJoin
    \/ ForceState
    \/ AppendToState
    \/ AppendPdu
    \/ SetRoomState

(***************************************************************************)
(* The federation send_join handler, create_join_event.                    *)
(***************************************************************************)
FedReturn(result) == fed' = [fed EXCEPT !.pc = "done", !.result = result]

\* lines 36-196: the room is known and this server is in it, the state before
\* the join is noted, the event is validated and signed
FedReceive ==
    /\ fed.pc = "idle"
    /\ \E valid \in Booleans :
        IF ~room.server_in_room THEN FedReturn("NotFound")
        ELSE IF ~valid THEN FedReturn("BadJson")
        ELSE fed' = [fed EXCEPT !.pc = "lock", !.shortstatehash = room.shortstatehash]
    /\ UNCHANGED <<servers, room, state_mutex, mutex_federation, join, contacted,
                   uiaVars, authVars, handlerVars>>

\* lines 198-202: mutex_federation.lock(room_id).await
FedLock ==
    /\ fed.pc = "lock"
    /\ mutex_federation = "free"
    /\ mutex_federation' = "fed"
    /\ fed' = [fed EXCEPT !.pc = "handle"]
    /\ UNCHANGED <<servers, room, state_mutex, join, contacted, uiaVars, authVars, handlerVars>>

\* handle_incoming_pdu does not accept the event: the handler returns the error
FedRefused ==
    /\ fed.pc = "handle"
    /\ mutex_federation' = "free"
    /\ FedReturn("InvalidParam")
    /\ UNCHANGED <<servers, room, state_mutex, join, contacted, uiaVars, authVars, handlerVars>>

\* handle_incoming_pdu admits the event: it takes the room's state mutex
FedAdmit ==
    /\ fed.pc = "handle"
    /\ state_mutex = "free"
    /\ state_mutex' = "fed"
    /\ fed' = [fed EXCEPT !.pc = "append"]
    /\ UNCHANGED <<servers, room, mutex_federation, join, contacted, uiaVars, authVars, handlerVars>>

\* handle_incoming_pdu: the event is appended to the timeline
FedAppend ==
    /\ fed.pc = "append"
    /\ room' = [room EXCEPT !.timeline = Append(@, "join_fed")]
    /\ fed' = [fed EXCEPT !.pc = "install"]
    /\ UNCHANGED <<servers, state_mutex, mutex_federation, join, contacted,
                   uiaVars, authVars, handlerVars>>

\* handle_incoming_pdu: the state with the event becomes the room's, and the
\* state mutex is released
FedInstall ==
    /\ fed.pc = "install"
    /\ room' = [room EXCEPT !.shortstatehash = @ + 1]
    /\ state_mutex' = "free"
    /\ fed' = [fed EXCEPT !.pc = "respond", !.state_before = room.shortstatehash]
    /\ UNCHANGED <<servers, mutex_federation, join, contacted, uiaVars, authVars, handlerVars>>

\* lines 212-269: drop(mutex_lock), and the state noted before is returned
FedRespond ==
    /\ fed.pc = "respond"
    /\ mutex_federation' = "free"
    /\ FedReturn("ok")
    /\ UNCHANGED <<servers, room, state_mutex, join, contacted, uiaVars, authVars, handlerVars>>

FedNext ==
    \/ FedReceive
    \/ FedLock
    \/ FedRefused
    \/ FedAdmit
    \/ FedAppend
    \/ FedInstall
    \/ FedRespond

(***************************************************************************)
(* Join: specifications.  SpecJoin: a client joins a room while a peer's   *)
(* send_join for the same room is handled.                                 *)
(***************************************************************************)
InitJoin ==
    /\ servers \in ServerLists
    /\ room \in InitialRooms
    /\ state_mutex = "free"
    /\ mutex_federation = "free"
    /\ join = IdleJoin
    /\ fed = IdleFed
    /\ contacted = <<>>
    /\ UiaAtRest
    /\ AuthAtRest
    /\ HandlersAtRest

NextJoin == JoinNext \/ FedNext

SpecJoin == InitJoin /\ [][NextJoin]_vars

\* a client's join on its own, the task being scheduled while it can step
SpecJoinFair == InitJoin /\ [][JoinNext]_vars /\ WF_vars(JoinNext)

(***************************************************************************)
(* Join: properties.                                                       *)
(***************************************************************************)
IsMakeJoin(c) == c.req = "make_join"

MakeJoinContacts == SelectSeq(contacted, IsMakeJoin)

\* the make_join answers after which the next candidate is to be tried
FailedSoftly(response) ==
    response \in {"UnableToAuthorizeJoin", "UnableToGrantJoin", "NotFound", "Unknown",
                  "ok_invalid_stub"}

FailedHard(response) == response \in {"IncompatibleRoomVersion", "Forbidden"}

\* the positions of the candidate list that name a peer
PeerPositions == {k \in 1..Len(servers) : servers[k] # Ours}

C25_LocalFirst ==
    /\ (join.server_in_room /\ ~join.local_error) => contacted = <<>>
    /\ (join.local_error /\ PeerPositions # {}) => join.result # "local_error"
    /\ (join.local_error /\ PeerPositions = {}) =>
            /\ contacted = <<>>
            /\ join.pc = "done"
            /\ join.result = "local_error"

\* the candidates are p1, p2, p3; p1 has answered make_join with NotFound and
\* p2 with a valid response
C7_Scenario ==
    /\ servers = <<"peer1", "peer2", "peer3">>
    /\ Len(contacted) >= 2
    /\ contacted[1] = Contact("make_join", "peer1", 1, "NotFound")
    /\ contacted[2] = Contact("make_join", "peer2", 2, "ok_valid")

C7_Joined ==
    /\ join.pc = "done"
    /\ join.result = "joined"
    /\ room.membership = "join"
    /\ room.state_source = "peer2"
    /\ \E k \in 1..Len(room.timeline) : room.timeline[k] = "join_remote"

ClientAdmitting ==
    join.pc \in {"local_appended", "append_to_state", "append_pdu", "set_room_state"}
FedAdmitting == fed.pc = "install"

\* the join has got past the integration of the send_join response
ResponseIntegrated ==
    \/ join.pc \in {"force_state", "append_to_state", "append_pdu", "set_room_state"}
    \/ join.pc = "done" /\ join.result = "joined" /\ join.response # "none"

\* C27: while a send_join response is integrated, an event of its state or of
\* its auth chain that lacks valid signatures makes the join fail; an event
\* over the size bound is dropped, from the state and from the auth chain
\* alike, so that it is neither kept as an outlier nor installed, and the
\* join goes on.
C27_SendJoinEventsChecked ==
    /\ ResponseIntegrated => join.state_flaw # "unsigned" /\ join.auth_flaw # "unsigned"
    /\ \A pdu \in room.outliers \cup room.state_events : pdu.flaw # "oversize"
    /\ ( /\ join.pc = "done"
         /\ join.response = "accepted"
         /\ join.state_flaw # "unsigned"
         /\ join.auth_flaw # "unsigned" )
       => join.result = "joined"

\* the event is a join of the joining user in the requested room
StubIsJoinOf(e) ==
    /\ e.type = Some(MemberType)
    /\ e.sender = Some(JoiningUser)
    /\ e.state_key = Some(JoiningUser)
    /\ e.room_id = Some(RoomId)
    /\ e.membership = Some("join")

\* C28: the join event this server hashes and signs comes from a make_join
\* stub of type m.room.member whose sender and state_key are the joining
\* user, whose room_id is the requested room and whose content.membership is
\* join; after a stub that fails one of these checks nothing is signed, and
\* the next candidate is tried.
C28_OnlyValidatedStubSigned ==
    /\ IsSome(join.signed) =>
            /\ IsSome(join.stub)
            /\ StubIsJoinOf(join.stub[1])
            /\ StubIsJoinOf(join.signed[1])
    /\ (IsSome(join.stub) /\ ~StubIsJoinOf(join.stub[1])) =>
            /\ ~IsSome(join.signed)
            /\ contacted[Len(contacted)].response = "ok_invalid_stub"
            /\ \/ join.pc = "make_join" /\ join.idx > contacted[Len(contacted)].idx
               \/ join.pc = "done" /\ join.result = "No server available"

\* C28, its case: the first candidate's stub has failed the validation, the
\* second candidate's stub has passed it and has been signed.
C28_Witness ==
    /\ Len(contacted) >= 2
    /\ contacted[1].response = "ok_invalid_stub"
    /\ contacted[2].response = "ok_valid"
    /\ IsSome(join.signed)

\* the join is waiting for peers or checking what they returned
JoinVerifying == join.pc \in {"make_join", "send_join", "validate"}

\* C26: during a join the room's state mutex is not held while make_join or
\* send_join requests, key fetches or the validation of the returned state
\* are outstanding; the join holds it only from the beginning of the append
\* until the room state is installed.
C26_MutexOnlyForAdmission ==
    /\ JoinVerifying => state_mutex # "client"
    /\ state_mutex = "client" => ClientAdmitting

\* C29: the state the send_join handler returns is the state of the room
\* immediately before the submitted join event was admitted, whatever other
\* events are admitted to the room while the request is handled.
C29_StateBeforeJoinReturned ==
    (fed.pc = "respond" \/ (fed.pc = "done" /\ fed.result = "ok"))
        => fed.shortstatehash = fed.state_before

\* the join event of the remote join is in the room's timeline
JoinInTimeline == \E k \in 1..Len(room.timeline) : room.timeline[k] = "join_remote"

\* the remote join has set nothing of the room's state: no state is stored
\* or forced, the join event is not in the timeline, and the room's current
\* state hash is the one the room began with, moved on only by the joins
\* admitted over federation
RoomStateUntouched ==
    /\ room.saved_states = {}
    /\ room.state_events = {}
    /\ ~JoinInTimeline
    /\ room.state_source \in {"none", "local"}
    /\ room.shortstatehash =
            (IF room.state_source = "local" THEN 1 ELSE 0)
            + Cardinality({k \in 1..Len(room.timeline) : room.timeline[k] = "join_fed"})
            - (IF fed.pc = "install" THEN 1 ELSE 0)

\* the auth check over the returned send_join state has not allowed the join
\* event: it has denied it, or has returned an error
AuthCheckRefused == join.pc = "done" /\ join.response \in {"rejected", "auth_error"}

\* C36: if the auth check run over the returned send_join state denies the
\* join event or returns an error, the remote join fails with a Forbidden
\* error and the room's state is left unchanged: no state is forced, nothing
\* is appended to state, the join event is not appended to the timeline, and
\* the room's current state hash is not set.
C36_RefusedJoinLeavesRoom ==
    AuthCheckRefused => join.result = "Forbidden" /\ RoomStateUntouched

\* C36, its case: the auth check has returned an error for a response whose
\* events have been kept as outliers.
C36_Witness ==
    /\ AuthCheckRefused
    /\ join.response = "auth_error"
    /\ room.outliers # {}

\* the event is in the event store: as an outlier, or in the timeline
InEventStore(pdu) == pdu \in room.outliers \/ (pdu = JoinPdu /\ JoinInTimeline)

\* C37: the integration of a remote join forces the state before the join,
\* then appends the join to state, then appends the join event to the
\* timeline, then sets the room's current state to the state after the join,
\* all with the room's state mutex held; so the join event is never in the
\* timeline without its state, and every event of the room's current state
\* is in the event store.
C37_IntegrationOrder ==
    /\ join.pc \in {"force_state", "append_to_state", "append_pdu", "set_room_state"}
            => state_mutex = "client"
    /\ join.pc = "force_state" => join.state \notin room.saved_states /\ ~JoinInTimeline
    /\ join.pc = "append_to_state" =>
            /\ join.state \in room.saved_states
            /\ (join.state \cup {JoinPdu}) \notin room.saved_states
            /\ ~JoinInTimeline
    /\ join.pc = "append_pdu" =>
            /\ (join.state \cup {JoinPdu}) \in room.saved_states
            /\ ~JoinInTimeline
    /\ join.pc = "set_room_state" => JoinInTimeline /\ room.state_events = join.state
    /\ JoinInTimeline => (join.state \cup {JoinPdu}) \in room.saved_states
    /\ \A pdu \in room.state_events : InEventStore(pdu)

\* C37, its case: the join event is in the timeline and the room's current
\* state is still the state before the join.
C37_Witness ==
    /\ join.pc = "set_room_state"
    /\ JoinInTimeline
    /\ room.state_events # {}

\* C38: if the state returned by send_join has no usable m.room.create event
\* (there is none, or it is dropped during validation), the remote join ends
\* failed, with an error returned to the caller, and no room state is
\* installed.
C38_NoCreateFailsWithError ==
    (join.pc = "done" /\ join.response \in {"no_create", "bad_create"})
        => join.result \notin {"joined", "panic"} /\ RoomStateUntouched

Origin == "origin"
OurServer == "ours"

\* body.event in the fields the handler reads: whether it is a JSON object,
\* its type (absent, or a string), whether content is there and parses, the
\* membership of the content, and the servers of sender and state_key (absent
\* when the field is no user id)
InviteEvent(object, type, content_ok, membership, sender, state_key) ==
    [object |-> object, type |-> type, content_ok |-> content_ok,
     membership |-> membership, sender |-> sender, state_key |-> state_key]

GoodInvite == InviteEvent(TRUE, Some(MemberType), TRUE, "invite", Some(Origin), Some(OurServer))

InviteEvents ==
    {GoodInvite,
     [GoodInvite EXCEPT !.object = FALSE],
     [GoodInvite EXCEPT !.type = Some(NameType)],
     [GoodInvite EXCEPT !.type = Nothing],
     [GoodInvite EXCEPT !.content_ok = FALSE],
     [GoodInvite EXCEPT !.membership = "join"],
     [GoodInvite EXCEPT !.membership = "leave"],
     [GoodInvite EXCEPT !.sender = Some("other")],
     [GoodInvite EXCEPT !.sender = Nothing],
     [GoodInvite EXCEPT !.state_key = Some(Origin)],
     [GoodInvite EXCEPT !.state_key = Nothing],
     [GoodInvite EXCEPT !.type = Some(NameType), !.sender = Some("other")]}

\* the steps of the handler that can fail for reasons of their own
InviteFailures == {"none", "sign", "event_id", "pdu", "mark_as_invited", "appservice"}

\* what the handler did: its answer, whether the invited state was recorded,
\* whether an appservice was sent the event, and the re-signed event returned
InviteOutcome(result, invited, notified, event) ==
    [result |-> result, invited |-> invited, notified |-> notified, event |-> event]

Rejected(result) == InviteOutcome(result, FALSE, FALSE, Nothing)

\* lines 160-233: the invited state is recorded when this server is not in
\* the room, the matching appservice is sent the event, and the signed event
\* is returned
create_invite_record(i, signed) ==
    IF i.failure = "pdu" THEN Rejected("BadJson")
    ELSE IF i.server_in_room THEN InviteOutcome("ok", FALSE, FALSE, Some(signed))
    ELSE IF i.failure = "mark_as_invited" THEN Rejected("Err")
    ELSE IF ~i.appservice_match THEN InviteOutcome("ok", TRUE, FALSE, Some(signed))
    ELSE IF i.failure = "appservice"
    THEN InviteOutcome("BadServerResponse", TRUE, FALSE, Nothing)
    ELSE InviteOutcome("ok", TRUE, TRUE, Some(signed))

\* lines 28-158: the checks, in the order of the code
create_invite_route(i) ==
    LET e == i.event
    IN  IF ~i.acl_origin_ok THEN Rejected("Forbidden")
        ELSE IF ~i.supported_room_version THEN Rejected("IncompatibleRoomVersion")
        ELSE IF i.room_server_forbidden THEN Rejected("Forbidden")
        ELSE IF i.origin_forbidden THEN Rejected("Forbidden")
        ELSE IF ~e.object THEN Rejected("InvalidParam")
        ELSE IF ~IsSome(e.type) THEN Rejected("panic")
        ELSE IF e.type[1] # MemberType THEN Rejected("BadJson")
        ELSE IF ~e.content_ok THEN Rejected("BadJson")
        ELSE IF e.membership # "invite" THEN Rejected("BadJson")
        ELSE IF ~IsSome(e.sender) THEN Rejected("InvalidParam")
        ELSE IF e.sender[1] # Origin THEN Rejected("Forbidden")
        ELSE IF ~IsSome(e.state_key) THEN Rejected("InvalidParam")
        ELSE IF e.state_key[1] # OurServer THEN Rejected("InvalidParam")
        ELSE IF ~i.acl_ours_ok THEN Rejected("Forbidden")
        ELSE IF i.failure = "sign" THEN Rejected("InvalidParam")
        ELSE IF i.failure = "event_id" THEN Rejected("Err")
        ELSE IF i.room_banned /\ ~i.recipient_admin THEN Rejected("Forbidden")
        ELSE IF i.block_non_admin_invites /\ ~i.recipient_admin THEN Rejected("Forbidden")
        ELSE IF ~i.user_may_invite_ok THEN Rejected("Forbidden")
        ELSE create_invite_record(i, [e EXCEPT !.object = TRUE])

\* the requests: the event, and what the services the handler asks answer
InviteRequests ==
    \E event \in InviteEvents, failure \in InviteFailures,
       acl_origin_ok \in Booleans, supported_room_version \in Booleans,
       room_server_forbidden \in Booleans, origin_forbidden \in Booleans,
       acl_ours_ok \in Booleans, room_banned \in Booleans, recipient_admin \in Booleans,
       block_non_admin_invites \in Booleans, user_may_invite_ok \in Booleans,
       server_in_room \in Booleans, appservice_match \in Booleans :
        invite_call = [pc |-> "received", event |-> event, failure |-> failure,
                       acl_origin_ok |-> acl_origin_ok,
                       supported_room_version |-> supported_room_version,
                       room_server_forbidden |-> room_server_forbidden,
                       origin_forbidden |-> origin_forbidden,
                       acl_ours_ok |-> acl_ours_ok,
                       room_banned |-> room_banned,
                       recipient_admin |-> recipient_admin,
                       block_non_admin_invites |-> block_non_admin_invites,
                       user_may_invite_ok |-> user_may_invite_ok,
                       server_in_room |-> server_in_room,
                       appservice_match |-> appservice_match,
                       out |-> Rejected("none")]

CreateInvite ==
    /\ invite_call.pc = "received"
    /\ invite_call' = [invite_call EXCEPT !.pc = "done",
                                         !.out = create_invite_route(invite_call)]
    /\ UNCHANGED <<missing_call, uiaVars, authVars, joinVars>>

InitInvite ==
    /\ InviteRequests
    /\ missing_call = IdleHandler
    /\ UiaAtRest
    /\ AuthAtRest
    /\ JoinAtRest

NextInvite == CreateInvite

SpecInvite == InitInvite /\ [][NextInvite]_vars

\* one of the conditions under which the invite is to be rejected holds: the
\* room version is not supported, the origin is banned, the event is not an
\* m.room.member invite, the sender's server is not the origin, the target is
\* not a local user, the room is banned on this server, anti-spam refuses
MustBeRejected(i) ==
    \/ ~i.supported_room_version
    \/ i.origin_forbidden
    \/ i.event.type # Some(MemberType)
    \/ ~i.event.content_ok
    \/ i.event.membership # "invite"
    \/ i.event.sender # Some(Origin)
    \/ i.event.state_key # Some(OurServer)
    \/ i.room_banned
    \/ ~i.user_may_invite_ok

\* C34: the federation invite handler rejects the request, records no
\* invited state and returns no re-signed event, whenever the room version is
\* unsupported, the origin is banned, the event is not an m.room.member
\* invite, the sender's server differs from the origin, the target user is
\* not local, the room is banned on this server (whoever the recipient is),
\* or anti-spam refuses.
C34_InviteRejected ==
    (invite_call.pc = "done" /\ MustBeRejected(invite_call))
        => /\ invite_call.out.result # "ok"
           /\ ~invite_call.out.invited
           /\ ~invite_call.out.notified
           /\ invite_call.out.event = Nothing

(***************************************************************************)
(* The federation get_missing_events handler (get_missing_events.rs).      *)
(***************************************************************************)
\* line 9 and line 11
LIMIT_MAX == 50
LIMIT_DEFAULT == 10

MaxEvents == 52       \* events of the room that this server holds

\* the events this server holds; event 0 is referenced but not held
LocalEvents == 1..MaxEvents

\* pdu.prev_events: a chain, with a second predecessor at every eighth event
prev_events(e) ==
    IF e = 1 THEN <<0>>
    ELSE IF e % 8 = 0 THEN <<e - 1, e - 2>>
    ELSE <<e - 1>>

\* timeline.get_pdu(event_id).is_ok()
get_pdu_ok(e) == e \in LocalEvents

Min(a, b) == IF a < b THEN a ELSE b

\* a limit that is taken as the client sent it
EffectiveLimit_Mutant(limit) == IF IsSome(limit) THEN limit[1] ELSE LIMIT_DEFAULT

\* lines 42-46: body.limit.try_into().unwrap_or(LIMIT_DEFAULT).min(LIMIT_MAX);
\* the limit is absent when the number sent does not fit a usize
EffectiveLimit(limit) == Min(IF IsSome(limit) THEN limit[1] ELSE LIMIT_DEFAULT, LIMIT_MAX)

RequestLimits == {Some(0), Some(1), Some(3), Some(50), Some(51), Some(60), Nothing}

LatestEvents == {<<>>, <<MaxEvents>>, <<5, 3>>, <<0, 9>>, <<4, 4>>}

EarliestEvents == {{}, {3}, {2, MaxEvents - 2}}

\* the events server_can_see_event refuses to the origin
HiddenEvents == {{}, {4}, {MaxEvents - 1, 2}}

\* the events to_canonical_object fails for
BrokenEvents == {{}, {5}}

MissingRequests ==
    \E limit \in RequestLimits, latest \in LatestEvents, earliest \in EarliestEvents,
       hidden \in HiddenEvents, broken \in BrokenEvents,
       access_ok \in Booleans, server_in_room \in Booleans :
        missing_call = [pc |-> "received", body_limit |-> limit, latest_events |-> latest,
                        earliest_events |-> earliest, hidden |-> hidden, broken |-> broken,
                        access_ok |-> access_ok, server_in_room |-> server_in_room,
                        limit |-> 0, queued_events |-> <<>>, events |-> <<>>, i |-> 0,
                        result |-> "none"]

\* lines 20-49: the access check, the room check, the limit and the queue
MissingReceive ==
    /\ missing_call.pc = "received"
    /\ missing_call' =
        IF ~missing_call.access_ok
        THEN [missing_call EXCEPT !.pc = "done", !.result = "Forbidden"]
        ELSE IF ~missing_call.server_in_room
        THEN [missing_call EXCEPT !.pc = "done", !.result = "NotFound"]
        ELSE [missing_call EXCEPT !.pc = "walk",
                                  !.limit = EffectiveLimit(missing_call.body_limit),
                                  !.queued_events = missing_call.latest_events]
    /\ UNCHANGED <<invite_call, uiaVars, authVars, joinVars>>

\* line 52: while i < queued_events.len() && events.len() < limit
WalkGoesOn(m) == m.i < Len(m.queued_events) /\ Len(m.events) < m.limit

\* lines 53-98: one round of the loop
MissingStep ==
    /\ missing_call.pc = "walk"
    /\ WalkGoesOn(missing_call)
    /\ LET m == missing_call
           e == m.queued_events[m.i + 1]
       IN  missing_call' =
            IF \/ ~get_pdu_ok(e)
               \/ e \in m.earliest_events
               \/ e \in m.hidden
               \/ e \in m.broken
            THEN [m EXCEPT !.i = @ + 1]
            ELSE [m EXCEPT !.i = @ + 1,
                           !.queued_events = @ \o prev_events(e),
                           !.events = Append(@, e)]
    /\ UNCHANGED <<invite_call, uiaVars, authVars, joinVars>>

\* line 101: Ok(Response { events })
MissingReturn ==
    /\ missing_call.pc = "walk"
    /\ ~WalkGoesOn(missing_call)
    /\ missing_call' = [missing_call EXCEPT !.pc = "done", !.result = "ok"]
    /\ UNCHANGED <<invite_call, uiaVars, authVars, joinVars>>

InitMissing ==
    /\ MissingRequests
    /\ invite_call = IdleHandler
    /\ UiaAtRest
    /\ AuthAtRest
    /\ JoinAtRest

NextMissing == MissingReceive \/ MissingStep \/ MissingReturn

\* the handler's task is scheduled while it can step
SpecMissing == InitMissing /\ [][NextMissing]_vars /\ WF_vars(NextMissing)

\* the limit of the request as a number: a number that does not fit a usize
\* is above every bound
RequestedLimit(m) == IF IsSome(m.body_limit) THEN m.body_limit[1] ELSE LIMIT_MAX + 1

\* the events gathered so far are within the bound, each is in latest_events
\* or a prev_event of an event gathered before it, none is in
\* earliest_events, and the origin may see each
WalkSound(m) ==
    /\ Len(m.events) <= RequestedLimit(m)
    /\ Len(m.events) <= LIMIT_MAX
    /\ \A k \in 1..Len(m.events) :
        /\ \/ Contains(m.latest_events, m.events[k])
           \/ \E j \in 1..(k - 1) : Contains(prev_events(m.events[j]), m.events[k])
        /\ m.events[k] \notin m.earliest_events
        /\ m.events[k] \notin m.hidden

\* C35: for every request the get_missing_events walk terminates and returns
\* at most min(limit, 50) events, and every returned event is reachable from
\* latest_events through prev_events, is not in earliest_events, and is
\* visible to the requesting server.
C35_MissingEventsWalk ==
    /\ [](missing_call.pc # "idle" => WalkSound(missing_call))
    /\ <>(missing_call.pc = "done")

\* C35, its case: a request for more than 50 events has been answered with
\* the 50 events the walk stops at.
C35_Witness ==
    /\ missing_call.pc = "done"
    /\ missing_call.result = "ok"
    /\ RequestedLimit(missing_call) > LIMIT_MAX
    /\ Len(missing_call.events) = LIMIT_MAX

====
